---- MODULE Spec2Model ----
(***************************************************************************)
(* Filter and subscription engine of the JSON-RPC "eth" endpoints          *)
(* (jsonrpc/endpoints_eth.go): filter registration, polling                *)
(* (GetFilterChanges), the push fan-out of a new L2 block event            *)
(* (onNewL2Block, notifyNewHeads, notifyNewLogs, parallelize) and the log  *)
(* matcher (filterLogs).                                                   *)
(*                                                                         *)
(* The specifications share the variables:                                 *)
(*   Spec        poll-mode engine: registration, block ingestion, polling  *)
(*   SpecQuery   polling, GetFilterLogs and UninstallFilter on a storage   *)
(*               with no filter or one                                     *)
(*   SpecRace    two clients polling one filter at the same time           *)
(*   SpecFanout  one new-block event fanned out to the push-mode filters   *)
(*   SpecFanoutFair  SpecFanout under fair scheduling of the goroutines    *)
(*   SpecSubs    registrations, subscriptions and closing connections      *)
(*   SpecClose   connections closing during the fan-out                    *)
(*   SpecDrop    SpecClose with Unsubscribe                                *)
(*   SpecUnsub   Unsubscribe and closing connections                       *)
(*   SpecOrder   the events of several blocks, one after the other         *)
(*   SpecSkip    the fan-out to "logs" subscriptions with block ranges     *)
(*   SpecNotify  the function of notifyNewLogs on one filter and one event *)
(*   SpecMatch   filterLogs applied to a filter and a log drawn from       *)
(*               bounded sets                                              *)
(*   SpecPar     one parallelize call on lists and worker numbers drawn    *)
(*               from bounded sets                                         *)
(***************************************************************************)
EXTENDS Integers, Sequences, FiniteSets, TLC

\* ------------------------------------------------------------------------
\* Program constants
\* ------------------------------------------------------------------------

\* maxTopics is the max number of topics a log can have
maxTopics == 4

\* const maxWorkers of notifyNewHeads and notifyNewLogs
maxWorkers == 16

\* ------------------------------------------------------------------------
\* Bounds of the model
\* ------------------------------------------------------------------------

\* longest address list of a LogFilter
MaxAddrs == 2

\* longest list of acceptable values in one topic slot of a LogFilter
MaxSlotLen == 1

\* a LogFilter may define more slots than a log can have topics
MaxFilterTopics == maxTopics + 1

\* ------------------------------------------------------------------------
\* Values
\* ------------------------------------------------------------------------

\* account addresses 0xAA and 0xBB
Addrs == {170, 187}

\* topic values 0x01 and 0x02
TopicValues == {1, 2}

Min(a, b) == IF a < b THEN a ELSE b

Range(s) == {s[i] : i \in 1..Len(s)}

SeqsUpTo(S, n) == UNION {[1..k -> S] : k \in 0..n}

\* lists without repetition, one list per set of values
NoRepeat(s) == \A i, j \in 1..Len(s) : i < j => s[i] < s[j]

ValueLists(S, n) == {s \in SeqsUpTo(S, n) : NoRepeat(s)}

\* an optional value (a Go pointer): <<>> is nil, <<v>> is set
Nil == <<>>

Some(v) == <<v>>

\* types.BlockNumber: an explicit number or a symbolic reference
BlockNum(n) == [sym |-> "number", num |-> n]

LatestBlockNumber == [sym |-> "latest", num |-> 0]

PendingBlockNumber == [sym |-> "pending", num |-> 0]

EarliestBlockNumber == [sym |-> "earliest", num |-> 0]

\* LogFilter (the Parameters of a filter of type FilterTypeLog)
LogFilter(blockHash, fromBlock, toBlock, addresses, topics) ==
    [BlockHash |-> blockHash, FromBlock |-> fromBlock, ToBlock |-> toBlock,
     Addresses |-> addresses, Topics |-> topics, Since |-> Nil]

\* the Parameters of a filter that is no log filter (a nil interface)
NoParameters == LogFilter(Nil, Nil, Nil, <<>>, <<>>)

FilterTypeBlock == "block"

FilterTypeLog == "log"

FilterTypePendingTx == "pendingTx"

\* a filter has no web socket connection (poll mode)
NoConn == "nil"

\* Filter: a record of the filter storage
Filter(id, type, parameters, lastPoll, wsConn) ==
    [ID |-> id, Type |-> type, Parameters |-> parameters,
     LastPoll |-> lastPoll, WsConn |-> wsConn]

\* ethTypes.Log: a log of a block, Index is its position in the block
EthLog(blockNumber, index, address, topics) ==
    [BlockNumber |-> blockNumber, Index |-> index,
     Address |-> address, Topics |-> topics]

\* types.NewLog: the RPC form of a log
NewLog(l) ==
    [address |-> l.Address, topics |-> l.Topics,
     blockNumber |-> l.BlockNumber, logIndex |-> l.Index]

\* ------------------------------------------------------------------------
\* filterLogs
\* ------------------------------------------------------------------------

\* contains check if the item can be found in the items
contains(items, itemsToFind) ==
    \E i \in 1..Len(items) : items[i] = itemsToFind

\* the address check that keeps every log
addressSkipsNever(logFilter, l) == FALSE

\* filterLogs, check address filter: TRUE when the log is skipped (continue)
addressSkips(logFilter, l) ==
    /\ Len(logFilter.Addresses) > 0
    /\ ~contains(logFilter.Addresses, l.Address)

\* the slot check that takes an empty slot for a slot no topic satisfies
topicSlotNoWildcard(logFilter, l, i) ==
    IF ~(Len(logFilter.Topics) > i) THEN "break"
    ELSE IF ~(Len(l.Topics) > i) THEN "mismatch"
    ELSE IF ~contains(logFilter.Topics[i + 1], l.Topics[i + 1]) THEN "mismatch"
    ELSE "next"

\* the slot check that accepts a log without the required topic
topicSlotMissingOk(logFilter, l, i) ==
    IF ~(Len(logFilter.Topics) > i) THEN "break"
    ELSE IF Len(logFilter.Topics[i + 1]) = 0 THEN "next"
    ELSE IF ~(Len(l.Topics) > i) THEN "break"
    ELSE IF ~contains(logFilter.Topics[i + 1], l.Topics[i + 1]) THEN "mismatch"
    ELSE "next"

\* filterLogs, the body of the loop over the topic positions, i counts from 0:
\* "break" leaves the loop with match unchanged, "mismatch" leaves it with
\* match = false, "next" goes on to position i + 1
topicSlot(logFilter, l, i) ==
    IF ~(Len(logFilter.Topics) > i) THEN "break"
    ELSE IF Len(logFilter.Topics[i + 1]) = 0 THEN "next"
    ELSE IF ~(Len(l.Topics) > i) THEN "mismatch"
    ELSE IF ~contains(logFilter.Topics[i + 1], l.Topics[i + 1]) THEN "mismatch"
    ELSE "next"

RECURSIVE topicsLoop(_, _, _)
\* filterLogs, for i := 0; i < maxTopics; i++ : the value of match at the end
topicsLoop(logFilter, l, i) ==
    IF ~(i < maxTopics) THEN TRUE
    ELSE LET verdict == topicSlot(logFilter, l, i)
         IN  IF verdict = "break" THEN TRUE
             ELSE IF verdict = "mismatch" THEN FALSE
             ELSE topicsLoop(logFilter, l, i + 1)

\* filterLogs, check topics: the value of match for one log
topicsMatch(logFilter, l) ==
    IF Len(logFilter.Topics) > 0 THEN topicsLoop(logFilter, l, 0) ELSE TRUE

RECURSIVE filterLogsLoop(_, _)
\* filterLogs, for _, l := range logsToFilter
filterLogsLoop(logsToFilter, logFilter) ==
    IF logsToFilter = <<>> THEN <<>>
    ELSE LET l == Head(logsToFilter)
             rest == filterLogsLoop(Tail(logsToFilter), logFilter)
         IN  IF addressSkips(logFilter, l) THEN rest
             ELSE IF topicsMatch(logFilter, l) THEN <<NewLog(l)>> \o rest
             ELSE rest

\* filterLogs that returns the logs it keeps last first
filterLogsReversed(logsToFilter, filter) ==
    LET kept == filterLogsLoop(logsToFilter, filter.Parameters)
    IN  [i \in 1..Len(kept) |-> kept[Len(kept) + 1 - i]]

\* filterLogs will filter the provided logsToFilter accordingly to the filter
filterLogs(logsToFilter, filter) ==
    filterLogsLoop(logsToFilter, filter.Parameters)

\* ------------------------------------------------------------------------
\* State
\* ------------------------------------------------------------------------

VARIABLES
    filters,        \* the filter storage: filter ID -> Filter
    nextID,         \* the next filter ID the storage hands out
    now,            \* the clock: the next instant time.Now() returns
    blocks,         \* the L2 blocks of the state, in ingestion order
    pc,             \* per client: its position inside GetFilterChanges
    call,           \* per client: the locals of its GetFilterChanges call
    reply,          \* per client: what its last finished call returned
    delivered,      \* per filter ID: the items its successful polls returned
    registeredAt,   \* per filter ID: the number of blocks at its registration
    polledAt,       \* per filter ID: the number of blocks when its last
                    \* successful poll returned, -1 before the first
    polls,          \* the number of GetFilterChanges calls started
    event,          \* the new L2 block event being handled
    handler,        \* the position of onNewL2Block
    heads,          \* the notifyNewHeads goroutine and its parallelize call
    newLogs,        \* the notifyNewLogs goroutine and its parallelize call
    sent,           \* per filter ID: the data enqueued to be sent, in order
    faulty,         \* the filter IDs whose enqueue panics
    badHeader,      \* TRUE when the block of the event fails to serialize
    logsToFilter,   \* filterLogs: the logs given to it
    filterArg,      \* filterLogs: the filter given to it
    matched,        \* filterLogs: the logs it returned
    applied,        \* filterLogs: TRUE once it has been applied
    answer,         \* what the last call other than GetFilterChanges returned
    removedAt,      \* per uninstalled filter ID: the number of blocks then
    removedFilter,  \* per uninstalled filter ID: the connection it was bound
                    \* to and the number of data enqueued on it until then
    stateAppliesTopics, \* TRUE when state.GetLogs applies the topics itself
    skipped,        \* shouldSkipLogFilter: what it returned
    par             \* a parallelize call on its own: its arguments and locals

pollVars == <<filters, nextID, now, blocks, pc, call, reply, delivered,
              registeredAt, polledAt, polls>>

fanoutVars == <<event, handler, heads, newLogs, sent, faulty, badHeader>>

matchVars == <<logsToFilter, filterArg, matched, applied>>

queryVars == <<answer, removedAt, removedFilter, stateAppliesTopics, skipped>>

parVars == <<par>>

vars == <<pollVars, fanoutVars, matchVars, queryVars, parVars>>

\* ------------------------------------------------------------------------
\* The state after construction (NewEthEndpoints): no filter, no call
\* ------------------------------------------------------------------------

Clients == {"c1"}

NoCall == [filterID |-> 0, filter |-> Filter(0, "", NoParameters, 0, NoConn),
           res |-> <<>>, started |-> 0]

NoReply == [filterID |-> 0, status |-> "none", msg |-> "", items |-> <<>>,
            started |-> 0]

PollInit ==
    /\ filters = <<>>
    /\ nextID = 1
    /\ now = 1
    /\ blocks = <<>>
    /\ pc = [c \in Clients |-> "idle"]
    /\ call = [c \in Clients |-> NoCall]
    /\ reply = [c \in Clients |-> NoReply]
    /\ delivered = <<>>
    /\ registeredAt = <<>>
    /\ polledAt = <<>>
    /\ polls = 0

NoEvent == [Number |-> 0, Hash |-> <<"0x", 0>>, Logs |-> <<>>,
            unresolved |-> FALSE]

NoGoroutine == [pc |-> "idle", data |-> <<>>, filters |-> <<>>,
                worker |-> 0, workers |-> <<>>]

FanoutIdle ==
    /\ event = NoEvent
    /\ handler = "idle"
    /\ heads = NoGoroutine
    /\ newLogs = NoGoroutine
    /\ sent = <<>>
    /\ faulty = {}
    /\ badHeader = FALSE

MatchIdle ==
    /\ logsToFilter = <<>>
    /\ filterArg = Filter(0, FilterTypeLog, NoParameters, 0, NoConn)
    /\ matched = <<>>
    /\ applied = FALSE

NoAnswer == [op |-> "none", filterID |-> 0, status |-> "none", msg |-> "",
             items |-> <<>>, query |-> <<>>, blocks |-> 0]

QueryIdle ==
    /\ answer = NoAnswer
    /\ removedAt = <<>>
    /\ removedFilter = <<>>
    /\ stateAppliesTopics = TRUE
    /\ skipped = FALSE

\* the state collaborator is not required to apply the topics of a query
QueryInit ==
    /\ answer = NoAnswer
    /\ removedAt = <<>>
    /\ removedFilter = <<>>
    /\ stateAppliesTopics \in BOOLEAN
    /\ skipped = FALSE

NoPar == [pc |-> "idle", maxWorkers |-> 0, items |-> <<>>, worker |-> 0,
          workers |-> <<>>, jobs |-> <<>>]

\* no parallelize call apart from those of the fan-out
ParIdle == par = NoPar

\* ------------------------------------------------------------------------
\* Collaborators: the state (blocks and logs), the clock, the filter storage
\* ------------------------------------------------------------------------

\* the hash of the block with the given number
BlockHashOf(n) == <<"0x", n>>

\* a block of the state; CreatedAt is the instant it was stored
Block(number, createdAt, logs) ==
    [Number |-> number, Hash |-> BlockHashOf(number),
     CreatedAt |-> createdAt, Logs |-> logs]

\* the number of the last L2 block (the genesis block is block 0)
LastL2BlockNumber == Len(blocks)

RECURSIVE Flatten(_)
\* the concatenation of a list of lists
Flatten(ss) == IF ss = <<>> THEN <<>> ELSE Head(ss) \o Flatten(Tail(ss))

\* state.GetL2BlockHashesSince: the hashes of the blocks stored strictly
\* after the instant since, in block order
GetL2BlockHashesSince(since) ==
    LET after == SelectSeq(blocks, LAMBDA b : b.CreatedAt > since)
    IN  [i \in 1..Len(after) |-> after[i].Hash]

\* BlockNumber.GetNumericBlockNumber: a nil reference stands for latest
GetNumericBlockNumber(ref) ==
    IF ref = Nil THEN LastL2BlockNumber
    ELSE IF ref[1].sym = "number" THEN ref[1].num
    ELSE IF ref[1].sym = "earliest" THEN 0
    ELSE LastL2BlockNumber

\* state.GetLogs: the logs of the blocks in the range (or of the block with
\* the given hash) stored strictly after since, whose address is in the
\* address list; the topics are applied only when applyTopics is set
GetLogs(fromBlock, toBlock, addresses, topics, blockHash, since, applyTopics) ==
    LET inRange(b) ==
            /\ IF blockHash # Nil THEN b.Hash = blockHash[1]
               ELSE fromBlock <= b.Number /\ b.Number <= toBlock
            /\ since = Nil \/ b.CreatedAt > since[1]
        keeps(l) ==
            /\ addresses = <<>> \/ l.Address \in Range(addresses)
            /\ \/ ~applyTopics
               \/ \A i \in 1..Min(Len(topics), maxTopics) :
                      \/ topics[i] = <<>>
                      \/ /\ Len(l.Topics) >= i
                         /\ l.Topics[i] \in Range(topics[i])
        selected == SelectSeq(blocks, inRange)
    IN  Flatten([i \in 1..Len(selected) |->
                    SelectSeq(selected[i].Logs, keeps)])

\* storage.NewBlockFilter / storage.NewLogFilter: a new filter under a fresh
\* ID, its LastPoll the instant of its creation
createFilter(type, parameters, wsConn) ==
    /\ filters' = filters @@
           (nextID :> Filter(nextID, type, parameters, now, wsConn))
    /\ nextID' = nextID + 1
    /\ now' = now + 1
    /\ delivered' = delivered @@ (nextID :> <<>>)
    /\ registeredAt' = registeredAt @@ (nextID :> Len(blocks))
    /\ polledAt' = polledAt @@ (nextID :> -1)

\* storage.UpdateFilterLastPoll: LastPoll becomes the current instant;
\* an unknown ID changes nothing (ErrNotFound)
UpdateFilterLastPoll(filterID) ==
    /\ filters' = IF filterID \in DOMAIN filters
                  THEN [filters EXCEPT ![filterID].LastPoll = now]
                  ELSE filters
    /\ now' = now + 1

\* ------------------------------------------------------------------------
\* Spec: the poll-mode engine
\* ------------------------------------------------------------------------

\* the most filters registered
MaxFilters == 1

\* the most blocks ingested
MaxBlocks == 2

\* the most GetFilterChanges calls started
MaxPolls == 2

\* the logs a new block carries: one log from 0xAA with topic 0x01 followed
\* by one log from 0xBB without topics
BlockLogs(number) ==
    { <<EthLog(number, 0, 170, <<1>>), EthLog(number, 1, 187, <<>>)>> }

\* the log filters a polling client may register
PollLogFilters ==
    { LogFilter(Nil, Nil, Nil, <<>>, <<>>),
      LogFilter(Nil, Nil, Nil, <<170>>, <<>>),
      LogFilter(Nil, Nil, Nil, <<170>>, << <<2>> >>),
      LogFilter(Nil, Some(BlockNum(2)), Some(LatestBlockNumber), <<>>, <<>>) }

\* the errors of a failed data retrieval
RetrievalErrors ==
    { "failed to get block hashes",
      "failed to get pending transaction hashes",
      "failed to resolve fromBlock",
      "failed to resolve toBlock",
      "failed to get logs from state" }

Reply(c, status, msg, items) ==
    [filterID |-> call[c].filterID, status |-> status, msg |-> msg,
     items |-> items, started |-> call[c].started]

\* NewBlockFilter: newBlockFilter(nil)
NewBlockFilter ==
    /\ nextID <= MaxFilters
    /\ createFilter(FilterTypeBlock, NoParameters, NoConn)
    /\ UNCHANGED <<blocks, pc, call, reply, polls, fanoutVars, matchVars, queryVars, parVars>>

\* NewFilter: newFilter(nil, filter)
NewFilter ==
    /\ nextID <= MaxFilters
    /\ \E filter \in PollLogFilters :
           createFilter(FilterTypeLog, filter, NoConn)
    /\ UNCHANGED <<blocks, pc, call, reply, polls, fanoutVars, matchVars, queryVars, parVars>>

\* The state stores a new L2 block and its logs. The event it then raises
\* finds no filter with a web socket connection in this specification, so
\* onNewL2Block enqueues nothing.
IngestBlock ==
    /\ Len(blocks) < MaxBlocks
    /\ \E logs \in BlockLogs(Len(blocks) + 1) :
           blocks' = Append(blocks, Block(Len(blocks) + 1, now, logs))
    /\ now' = now + 1
    /\ UNCHANGED <<filters, nextID, pc, call, reply, delivered, registeredAt,
                   polledAt, polls, fanoutVars, matchVars, queryVars, parVars>>

\* GetFilterChanges that goes on to the retrieval with an empty filter when
\* the storage holds no filter with the ID
GetFilterChanges_getUnchecked(c) ==
    /\ pc[c] = "idle"
    /\ polls < MaxPolls
    /\ polls' = polls + 1
    /\ \E filterID \in 1..MaxFilters :
           /\ call' = [call EXCEPT ![c] =
                  [filterID |-> filterID,
                   filter |-> IF filterID \in DOMAIN filters
                              THEN filters[filterID]
                              ELSE Filter(filterID, FilterTypeBlock,
                                          NoParameters, 0, NoConn),
                   res |-> <<>>, started |-> Len(blocks)]]
           /\ pc' = [pc EXCEPT ![c] = "retrieve"]
           /\ UNCHANGED reply
    /\ UNCHANGED <<filters, nextID, now, blocks, delivered, registeredAt,
                   polledAt, fanoutVars, matchVars, queryVars, parVars>>

\* GetFilterChanges, e.storage.GetFilter(filterID)
GetFilterChanges_get(c) ==
    /\ pc[c] = "idle"
    /\ polls < MaxPolls
    /\ polls' = polls + 1
    /\ \E filterID \in 1..MaxFilters :
           IF filterID \notin DOMAIN filters
           THEN /\ reply' = [reply EXCEPT ![c] =
                       [filterID |-> filterID, status |-> "error",
                        msg |-> "filter not found", items |-> <<>>,
                        started |-> Len(blocks)]]
                /\ UNCHANGED <<pc, call>>
           ELSE /\ call' = [call EXCEPT ![c] =
                       [filterID |-> filterID, filter |-> filters[filterID],
                        res |-> <<>>, started |-> Len(blocks)]]
                /\ pc' = [pc EXCEPT ![c] = "retrieve"]
                /\ UNCHANGED reply
    /\ UNCHANGED <<filters, nextID, now, blocks, delivered, registeredAt,
                   polledAt, fanoutVars, matchVars, queryVars, parVars>>

\* internalGetLogs: the block range is resolved, the state is asked for the
\* logs since filter.Since, and each is turned into its RPC form
internalGetLogs(filter, applyTopics) ==
    LET fromBlock == IF filter.FromBlock # Nil
                     THEN GetNumericBlockNumber(filter.FromBlock)
                     ELSE 0
        toBlock == GetNumericBlockNumber(filter.ToBlock)
        logs == GetLogs(fromBlock, toBlock, filter.Addresses, filter.Topics,
                        filter.BlockHash, filter.Since, applyTopics)
    IN  [i \in 1..Len(logs) |-> NewLog(logs[i])]

\* the failures the retrieval of a filter of the given type can meet
RetrievalFailures(filter) ==
    IF filter.Type = FilterTypeBlock THEN {"failed to get block hashes"}
    ELSE IF filter.Type = FilterTypePendingTx
         THEN {"failed to get pending transaction hashes"}
    ELSE (IF filter.Parameters.FromBlock # Nil
          THEN {"failed to resolve fromBlock"} ELSE {})
         \cup {"failed to resolve toBlock", "failed to get logs from state"}

\* what the retrieval of a filter returns when it succeeds; the pool of the
\* model holds no pending transaction
Retrieved(filter, applyTopics) ==
    IF filter.Type = FilterTypeBlock
    THEN GetL2BlockHashesSince(filter.LastPoll)
    ELSE IF filter.Type = FilterTypePendingTx THEN <<>>
    ELSE internalGetLogs([filter.Parameters EXCEPT
                             !.Since = Some(filter.LastPoll)], applyTopics)

\* GetFilterChanges that advances LastPoll before it retrieves the data
GetFilterChanges_retrieveAfterAdvance(c) ==
    /\ pc[c] = "retrieve"
    /\ UpdateFilterLastPoll(call[c].filterID)
    /\ \E failure \in RetrievalFailures(call[c].filter) \cup {"none"} :
           IF failure # "none"
           THEN /\ reply' = [reply EXCEPT ![c] =
                                 Reply(c, "error", failure, <<>>)]
                /\ pc' = [pc EXCEPT ![c] = "idle"]
                /\ UNCHANGED call
           ELSE /\ call' = [call EXCEPT ![c].res =
                                Retrieved(call[c].filter, stateAppliesTopics)]
                /\ pc' = [pc EXCEPT ![c] = "update"]
                /\ UNCHANGED reply
    /\ UNCHANGED <<nextID, blocks, delivered, registeredAt,
                   polledAt, polls, fanoutVars, matchVars, queryVars, parVars>>

\* GetFilterChanges, switch filter.Type: the data since filter.LastPoll is
\* retrieved; on a failure the call returns the error
GetFilterChanges_retrieve(c) ==
    /\ pc[c] = "retrieve"
    /\ \E failure \in RetrievalFailures(call[c].filter) \cup {"none"} :
           IF failure # "none"
           THEN /\ reply' = [reply EXCEPT ![c] =
                                 Reply(c, "error", failure, <<>>)]
                /\ pc' = [pc EXCEPT ![c] = "idle"]
                /\ UNCHANGED call
           ELSE /\ call' = [call EXCEPT ![c].res =
                                Retrieved(call[c].filter, stateAppliesTopics)]
                /\ pc' = [pc EXCEPT ![c] = "update"]
                /\ UNCHANGED reply
    /\ UNCHANGED <<filters, nextID, now, blocks, delivered, registeredAt,
                   polledAt, polls, fanoutVars, matchVars, queryVars, parVars>>

\* updateFilterLastPoll that stores a filter under the ID when the storage
\* holds none
updateFilterLastPollUpsert(filterID) ==
    /\ filters' = IF filterID \in DOMAIN filters
                  THEN [filters EXCEPT ![filterID].LastPoll = now]
                  ELSE filters @@ (filterID :>
                           Filter(filterID, FilterTypeBlock, NoParameters,
                                  now, NoConn))
    /\ now' = now + 1

\* updateFilterLastPoll that leaves LastPoll as it is
updateFilterLastPollNot(filterID) ==
    UNCHANGED <<filters, now>>

\* updateFilterLastPoll: e.storage.UpdateFilterLastPoll(filterID), where
\* ErrNotFound is no error
updateFilterLastPoll(filterID) ==
    UpdateFilterLastPoll(filterID)

\* GetFilterChanges that leaves LastPoll as it is when the retrieval
\* yielded no item
GetFilterChanges_updateNonEmptyOnly(c) ==
    /\ pc[c] = "update"
    /\ pc' = [pc EXCEPT ![c] = "idle"]
    /\ \E storageFails \in BOOLEAN :
           IF storageFails
           THEN /\ reply' = [reply EXCEPT ![c] = Reply(c, "error",
                       "failed to update last time the filter changes were requested",
                       <<>>)]
                /\ UNCHANGED <<filters, now, delivered, polledAt>>
           ELSE /\ IF Len(call[c].res) = 0
                   THEN UNCHANGED <<filters, now>>
                   ELSE updateFilterLastPoll(call[c].filterID)
                /\ reply' = [reply EXCEPT ![c] =
                       IF Len(call[c].res) = 0
                       THEN Reply(c, "nil", "", <<>>)
                       ELSE Reply(c, "result", "", call[c].res)]
                /\ delivered' = [delivered EXCEPT ![call[c].filterID] =
                                     @ \o call[c].res]
                /\ polledAt' = [polledAt EXCEPT ![call[c].filterID] =
                                    Len(blocks)]
    /\ UNCHANGED <<nextID, blocks, call, registeredAt, polls,
                   fanoutVars, matchVars, queryVars, parVars>>

\* GetFilterChanges, from updateFilterLastPoll to the return: a failure of
\* the storage other than ErrNotFound is returned as an error, an empty
\* result as nil
GetFilterChanges_update(c) ==
    /\ pc[c] = "update"
    /\ pc' = [pc EXCEPT ![c] = "idle"]
    /\ \E storageFails \in BOOLEAN :
           IF storageFails
           THEN /\ reply' = [reply EXCEPT ![c] = Reply(c, "error",
                       "failed to update last time the filter changes were requested",
                       <<>>)]
                /\ UNCHANGED <<filters, now, delivered, polledAt>>
           ELSE /\ updateFilterLastPoll(call[c].filterID)
                /\ reply' = [reply EXCEPT ![c] =
                       IF Len(call[c].res) = 0
                       THEN Reply(c, "nil", "", <<>>)
                       ELSE Reply(c, "result", "", call[c].res)]
                /\ delivered' = [delivered EXCEPT ![call[c].filterID] =
                                     @ \o call[c].res]
                /\ polledAt' = [polledAt EXCEPT ![call[c].filterID] =
                                    Len(blocks)]
    /\ UNCHANGED <<nextID, blocks, call, registeredAt, polls,
                   fanoutVars, matchVars, queryVars, parVars>>

\* storage.UninstallFilter: the filter with the ID is removed from the
\* storage; the IDs of the removed filters are remembered with the number
\* of blocks at that moment, the connection they were bound to and the
\* number of data enqueued on them until then
Uninstall(ids) ==
    /\ filters' = [id \in DOMAIN filters \ ids |-> filters[id]]
    /\ removedAt' = removedAt @@ [id \in ids |-> Len(blocks)]
    /\ removedFilter' = removedFilter @@
           [id \in ids |->
               [WsConn |-> filters[id].WsConn,
                queued |-> IF id \in DOMAIN sent THEN Len(sent[id]) ELSE 0]]

Answer(op, filterID, status, msg, items, query) ==
    [op |-> op, filterID |-> filterID, status |-> status, msg |-> msg,
     items |-> items, query |-> query, blocks |-> Len(blocks)]

\* UninstallFilter that answers true whether or not the filter existed
UninstallFilterAlwaysTrue ==
    /\ \E filterID \in 1..MaxFilters :
           /\ Uninstall({filterID} \cap DOMAIN filters)
           /\ answer' = Answer("UninstallFilter", filterID, "true", "",
                               <<>>, Nil)
    /\ UNCHANGED <<nextID, now, blocks, pc, call, reply, delivered,
                   registeredAt, polledAt, polls, fanoutVars, matchVars,
                   stateAppliesTopics, skipped, parVars>>

\* UninstallFilter uninstalls a filter with given id: false when the
\* storage answers ErrNotFound, an error when it fails otherwise, else
\* true; op and query name the call that is answered
uninstallFilter(filterID, op, query) ==
    IF filterID \notin DOMAIN filters
    THEN /\ answer' = Answer(op, filterID, "false", "", <<>>, query)
         /\ UNCHANGED <<filters, removedAt, removedFilter>>
    ELSE \E storageFails \in BOOLEAN :
             IF storageFails
             THEN /\ answer' = Answer(op, filterID, "error",
                                      "failed to uninstall filter", <<>>,
                                      query)
                  /\ UNCHANGED <<filters, removedAt, removedFilter>>
             ELSE /\ Uninstall({filterID})
                  /\ answer' = Answer(op, filterID, "true", "", <<>>, query)

\* the RPC method UninstallFilter, called on a filter ID
UninstallFilter ==
    /\ \E filterID \in 1..MaxFilters :
           uninstallFilter(filterID, "UninstallFilter", Nil)
    /\ UNCHANGED <<nextID, now, blocks, pc, call, reply, delivered,
                   registeredAt, polledAt, polls, fanoutVars, matchVars,
                   stateAppliesTopics, skipped, parVars>>

\* newPendingTransactionFilter that stores a filter of type PendingTx
newPendingTransactionFilterStored(wsConn, op, name) ==
    /\ createFilter(FilterTypePendingTx, NoParameters, wsConn)
    /\ answer' = Answer(op, nextID, "result", "", <<>>, name)

\* newPendingTransactionFilter: not supported, nothing is stored
newPendingTransactionFilter(wsConn, op, name) ==
    /\ answer' = Answer(op, 0, "error", "not supported yet", <<>>, name)
    /\ UNCHANGED <<filters, nextID, now, delivered, registeredAt, polledAt>>

\* NewPendingTransactionFilter: newPendingTransactionFilter(nil)
NewPendingTransactionFilter ==
    /\ newPendingTransactionFilter(NoConn, "NewPendingTransactionFilter", Nil)
    /\ UNCHANGED <<blocks, pc, call, reply, polls, fanoutVars, matchVars,
                   removedAt, removedFilter, stateAppliesTopics, skipped, parVars>>

\* what GetFilterLogs answers for a filter of the storage: nil for a filter
\* that is no log filter, else the logs of GetLogs for the filter's
\* parameters with Since as given, or the error of a failed retrieval
GetFilterLogsAnswer(filter, since, failure) ==
    IF filter.Type # FilterTypeLog
    THEN Answer("GetFilterLogs", filter.ID, "nil", "", <<>>, Nil)
    ELSE LET filterParameters == [filter.Parameters EXCEPT !.Since = since]
         IN  IF failure # "none"
             THEN Answer("GetFilterLogs", filter.ID, "error", failure, <<>>,
                         Some(filterParameters))
             ELSE Answer("GetFilterLogs", filter.ID, "result", "",
                         internalGetLogs(filterParameters,
                                         stateAppliesTopics),
                         Some(filterParameters))

\* the failures GetFilterLogs can meet on the filter
GetFilterLogsFailures(filter) ==
    IF filter.Type # FilterTypeLog THEN {"none"}
    ELSE RetrievalFailures(filter) \cup {"none"}

\* GetFilterLogs that advances LastPoll as GetFilterChanges does
GetFilterLogsAdvancing ==
    /\ \E filterID \in 1..MaxFilters :
           IF filterID \notin DOMAIN filters
           THEN /\ answer' = Answer("GetFilterLogs", filterID, "nil", "",
                                    <<>>, Nil)
                /\ UNCHANGED <<filters, now>>
           ELSE /\ \E failure \in GetFilterLogsFailures(filters[filterID]) :
                       answer' = GetFilterLogsAnswer(filters[filterID], Nil,
                                                     failure)
                /\ UpdateFilterLastPoll(filterID)
    /\ UNCHANGED <<nextID, blocks, pc, call, reply, delivered,
                   registeredAt, polledAt, polls, fanoutVars, matchVars,
                   removedAt, removedFilter, stateAppliesTopics, skipped, parVars>>

\* GetFilterLogs that asks for the logs since LastPoll and advances it
GetFilterLogsSince ==
    /\ \E filterID \in 1..MaxFilters :
           IF filterID \notin DOMAIN filters
           THEN /\ answer' = Answer("GetFilterLogs", filterID, "nil", "",
                                    <<>>, Nil)
                /\ UNCHANGED <<filters, now>>
           ELSE /\ \E failure \in GetFilterLogsFailures(filters[filterID]) :
                       answer' = GetFilterLogsAnswer(filters[filterID],
                                     Some(filters[filterID].LastPoll), failure)
                /\ UpdateFilterLastPoll(filterID)
    /\ UNCHANGED <<nextID, blocks, pc, call, reply, delivered,
                   registeredAt, polledAt, polls, fanoutVars, matchVars,
                   removedAt, removedFilter, stateAppliesTopics, skipped, parVars>>

\* GetFilterLogs that reports an unknown filter ID as an error, as
\* GetFilterChanges does
GetFilterLogsUnknownIsError ==
    /\ \E filterID \in 1..MaxFilters :
           IF filterID \notin DOMAIN filters
           THEN answer' = Answer("GetFilterLogs", filterID, "error",
                                 "filter not found", <<>>, Nil)
           ELSE \E failure \in GetFilterLogsFailures(filters[filterID]) :
                    answer' = GetFilterLogsAnswer(filters[filterID], Nil,
                                                  failure)
    /\ UNCHANGED <<pollVars, fanoutVars, matchVars, removedAt, removedFilter,
                   stateAppliesTopics, skipped, parVars>>

\* GetFilterLogs returns all logs matching the filter with the given id:
\* nil when the filter is unknown or is no log filter, else GetLogs on the
\* filter's parameters with Since = nil. The handler reads the storage
\* once and the state once and writes nothing, so it is one step.
GetFilterLogs ==
    /\ \E filterID \in 1..MaxFilters :
           IF filterID \notin DOMAIN filters
           THEN answer' = Answer("GetFilterLogs", filterID, "nil", "",
                                 <<>>, Nil)
           ELSE \E failure \in GetFilterLogsFailures(filters[filterID]) :
                    answer' = GetFilterLogsAnswer(filters[filterID], Nil,
                                                  failure)
    /\ UNCHANGED <<pollVars, fanoutVars, matchVars, removedAt, removedFilter,
                   stateAppliesTopics, skipped, parVars>>

Init == PollInit /\ FanoutIdle /\ MatchIdle /\ QueryInit /\ ParIdle

Next ==
    \/ NewBlockFilter
    \/ NewFilter
    \/ IngestBlock
    \/ \E c \in Clients : GetFilterChanges_get(c)
    \/ \E c \in Clients : GetFilterChanges_retrieve(c)
    \/ \E c \in Clients : GetFilterChanges_update(c)

Spec == Init /\ [][Next]_vars

\* SpecQuery: polling, GetFilterLogs and UninstallFilter on a storage that
\* holds no filter or one poll-mode filter registered before

\* the filter the storage may hold: the outcome of NewBlockFilter or of
\* NewFilter as the first registration
QueryFilters ==
    {Filter(1, FilterTypeBlock, NoParameters, 1, NoConn)}
    \cup {Filter(1, FilterTypeLog, parameters, 1, NoConn) :
              parameters \in PollLogFilters}

QueryStoreInit ==
    /\ \/ /\ filters = <<>>
          /\ nextID = 1
          /\ now = 1
          /\ delivered = <<>>
          /\ registeredAt = <<>>
          /\ polledAt = <<>>
       \/ /\ \E filter \in QueryFilters : filters = (1 :> filter)
          /\ nextID = 2
          /\ now = 2
          /\ delivered = (1 :> <<>>)
          /\ registeredAt = (1 :> 0)
          /\ polledAt = (1 :> -1)
    /\ blocks = <<>>
    /\ pc = [c \in Clients |-> "idle"]
    /\ call = [c \in Clients |-> NoCall]
    /\ reply = [c \in Clients |-> NoReply]
    /\ polls = 0

InitQuery == QueryStoreInit /\ FanoutIdle /\ MatchIdle /\ QueryInit /\ ParIdle

NextQuery ==
    \/ IngestBlock
    \/ \E c \in Clients : GetFilterChanges_get(c)
    \/ \E c \in Clients : GetFilterChanges_retrieve(c)
    \/ \E c \in Clients : GetFilterChanges_update(c)
    \/ GetFilterLogs
    \/ UninstallFilter

SpecQuery == InitQuery /\ [][NextQuery]_vars

\* SpecRace: two clients poll the one filter of the storage at the same
\* time; the server handles each request in a goroutine of its own

\* the clients that poll concurrently
Pollers == {"c1", "c2"}

RaceInit ==
    /\ \E filter \in QueryFilters : filters = (1 :> filter)
    /\ nextID = 2
    /\ now = 2
    /\ delivered = (1 :> <<>>)
    /\ registeredAt = (1 :> 0)
    /\ polledAt = (1 :> -1)
    /\ blocks = <<>>
    /\ pc = [c \in Pollers |-> "idle"]
    /\ call = [c \in Pollers |-> NoCall]
    /\ reply = [c \in Pollers |-> NoReply]
    /\ polls = 0

InitRace == RaceInit /\ FanoutIdle /\ MatchIdle /\ QueryIdle /\ ParIdle

NextRace ==
    \/ IngestBlock
    \/ \E c \in Pollers : GetFilterChanges_get(c)
    \/ \E c \in Pollers : GetFilterChanges_retrieve(c)
    \/ \E c \in Pollers : GetFilterChanges_update(c)

SpecRace == InitRace /\ [][NextRace]_vars

\* ------------------------------------------------------------------------
\* Properties of GetFilterChanges (Spec)
\* ------------------------------------------------------------------------

\* client c returns from a GetFilterChanges call in this step
Returns(c) == pc[c] # "idle" /\ pc'[c] = "idle"

\* the reply of a call that succeeded
Succeeded(r) == r.status \in {"nil", "result"}

\* LastPoll of the filter changes in this step
LastPollChanges(filterID) ==
    /\ filterID \in DOMAIN filters
    /\ filterID \in DOMAIN filters'
    /\ filters'[filterID].LastPoll # filters[filterID].LastPoll

\* C1: when the data retrieval of GetFilterChanges fails, the call returns
\* an error and leaves the filter's LastPoll unchanged; LastPoll is advanced
\* only by a call whose retrieval succeeded and that returns successfully.
C1_LastPollOnlyAfterRetrieval ==
    [][ /\ \A c \in Clients :
               (Returns(c) /\ reply'[c].msg \in RetrievalErrors) =>
                   /\ reply'[c].status = "error"
                   /\ filters' = filters
        /\ \A filterID \in 1..(nextID - 1) :
               LastPollChanges(filterID) =>
                   \E c \in Clients :
                       /\ pc[c] = "update"
                       /\ call[c].filterID = filterID
                       /\ Returns(c)
                       /\ Succeeded(reply'[c])
                       /\ reply'[c].items = call[c].res
      ]_vars

\* C1 witness: a call returned a retrieval error while a block stored after
\* the filter's LastPoll was waiting to be returned.
C1_Witness ==
    \E c \in Clients :
        /\ pc[c] = "idle"
        /\ reply[c].msg \in RetrievalErrors
        /\ reply[c].filterID \in DOMAIN filters
        /\ \E i \in 1..Len(blocks) :
               blocks[i].CreatedAt > filters[reply[c].filterID].LastPoll

\* the hashes of the blocks ingested after the registration of the filter
\* and before the given call started
IngestedBefore(filterID, started) ==
    {blocks[i].Hash : i \in (registeredAt[filterID] + 1)..started}

\* the list holds no item twice
NoDuplicates(items) ==
    \A i, j \in 1..Len(items) : i # j => items[i] # items[j]

\* C2: every block ingested after a Block filter's registration is returned
\* by exactly one successful GetFilterChanges call, in ingestion order, and
\* none is skipped: once a call that started after the block was ingested
\* has returned successfully, the block has been returned.
C2_NoBlockSkipped ==
    \A c \in Clients :
        (/\ pc[c] = "idle"
         /\ Succeeded(reply[c])
         /\ reply[c].filterID \in DOMAIN filters
         /\ filters[reply[c].filterID].Type = FilterTypeBlock) =>
            LET returned == delivered[reply[c].filterID]
            IN  /\ IngestedBefore(reply[c].filterID, reply[c].started)
                       \subseteq Range(returned)
                /\ NoDuplicates(returned)
                /\ \A i, j \in 1..Len(returned) :
                       i < j => returned[i][2] < returned[j][2]

\* C3: after a successful GetFilterChanges, a following call with no block
\* ingested in between returns no item, and no item is returned by two
\* successful calls.
C3_PollMonotonic ==
    [][ \A c \in Clients :
            (/\ pc[c] = "update"
             /\ Returns(c)
             /\ Succeeded(reply'[c])) =>
                /\ polledAt[call[c].filterID] = Len(blocks) =>
                       /\ reply'[c].status = "nil"
                       /\ reply'[c].items = <<>>
                /\ NoDuplicates(delivered'[call[c].filterID])
      ]_vars

\* C3 witness: a poll returned nothing although its filter had returned
\* items before.
C3_Witness ==
    \E c \in Clients :
        /\ pc[c] = "idle"
        /\ reply[c].status = "nil"
        /\ reply[c].filterID \in DOMAIN delivered
        /\ Len(delivered[reply[c].filterID]) > 0
        /\ polledAt[reply[c].filterID] = Len(blocks)

\* ------------------------------------------------------------------------
\* parallelize
\* ------------------------------------------------------------------------

\* workersCount that gives every item a worker of its own
workersCountPerItem(maxW, n) == n

\* parallelize, workersCount: maxWorkers, or len(items) when that is less
workersCount(maxW, n) == IF maxW > n THEN n ELSE maxW

\* jobSize without the increment for the rest of the division
jobSizeRoundedDown(maxW, n) == n \div workersCount(maxW, n)

\* parallelize, jobSize: len(items) / workersCount, one more when the
\* division leaves a rest
jobSize(maxW, n) ==
    LET size == n \div workersCount(maxW, n)
        rest == n % workersCount(maxW, n)
    IN  IF rest > 0 THEN size + 1 ELSE size

\* parallelize, rangeStart of a worker
rangeStart(maxW, n, worker) == worker * jobSize(maxW, n)

\* parallelize, rangeEnd of a worker, cut at len(items)
rangeEnd(maxW, n, worker) ==
    LET end == (worker + 1) * jobSize(maxW, n)
    IN  IF end > n THEN n ELSE end

\* parallelize: a worker whose rangeStart is beyond len(items) is passed
\* over (continue), every other gets a goroutine
startsWorker(maxW, n, worker) == ~(rangeStart(maxW, n, worker) > n)

\* parallelize, jobItems := items[rangeStart:rangeEnd]
jobItems(maxW, items, worker) ==
    SubSeq(items, rangeStart(maxW, Len(items), worker) + 1,
                  rangeEnd(maxW, Len(items), worker))

\* the deferred function without recover(): the panic ends the process
deferredNoRecover(panicked) == IF panicked THEN "crashed" ELSE "done"

\* the deferred function that recovers but calls wg.Done() only when fn
\* returned: after a panic the goroutine ends without wg.Done()
deferredDoneAfterFn(panicked) == IF panicked THEN "ended" ELSE "done"

\* parallelize, the deferred function of a worker goroutine: wg.Done(), then
\* recover() swallows the panic of fn, if any
deferred(panicked) == IF panicked THEN "recovered" ELSE "done"

\* ------------------------------------------------------------------------
\* The fan-out of a new L2 block event
\* ------------------------------------------------------------------------

\* storage.GetAllBlockFiltersWithWSConn / GetAllLogFiltersWithWSConn: the
\* filters of the type that have a web socket connection, by ascending ID
RECURSIVE FiltersWithWSConn(_, _)
FiltersWithWSConn(type, fromID) ==
    IF fromID >= nextID THEN <<>>
    ELSE (IF /\ fromID \in DOMAIN filters
             /\ filters[fromID].Type = type
             /\ filters[fromID].WsConn # NoConn
          THEN <<filters[fromID]>> ELSE <<>>)
         \o FiltersWithWSConn(type, fromID + 1)

GetAllBlockFiltersWithWSConn == FiltersWithWSConn(FilterTypeBlock, 1)

GetAllLogFiltersWithWSConn == FiltersWithWSConn(FilterTypeLog, 1)

\* types.NewBlock(&event.Block, nil, false, false): the block without
\* transactions and receipts
NewBlock(ev) == [number |-> ev.Number, hash |-> ev.Hash, transactions |-> <<>>]

\* json.Marshal of a block or of a log of the given block
Marshal(number, value) == [number |-> number, json |-> value]

\* shouldSkipLogFilter that applies the block range whether or not the
\* block hash is set
shouldSkipLogFilterByRange(ev, filter) ==
    LET logFilter == filter.Parameters
    IN  \/ /\ logFilter.FromBlock # Nil
           /\ \/ ev.unresolved
              \/ ev.Number < GetNumericBlockNumber(logFilter.FromBlock)
        \/ /\ logFilter.ToBlock # Nil
           /\ \/ ev.unresolved
              \/ ev.Number > GetNumericBlockNumber(logFilter.ToBlock)

\* shouldSkipLogFilter that also skips a block equal to a bound
shouldSkipLogFilterAtBound(ev, filter) ==
    LET logFilter == filter.Parameters
    IN  IF logFilter.BlockHash # Nil
        THEN logFilter.BlockHash[1] # ev.Hash
        ELSE \/ /\ logFilter.FromBlock # Nil
                /\ \/ ev.unresolved
                   \/ ev.Number <= GetNumericBlockNumber(logFilter.FromBlock)
             \/ /\ logFilter.ToBlock # Nil
                /\ \/ ev.unresolved
                   \/ ev.Number >= GetNumericBlockNumber(logFilter.ToBlock)

\* shouldSkipLogFilter that keeps a filter whose block numbers cannot be
\* resolved
shouldSkipLogFilterKeepsUnresolved(ev, filter) ==
    LET logFilter == filter.Parameters
    IN  IF logFilter.BlockHash # Nil
        THEN logFilter.BlockHash[1] # ev.Hash
        ELSE \/ /\ logFilter.FromBlock # Nil
                /\ ~ev.unresolved
                /\ ev.Number < GetNumericBlockNumber(logFilter.FromBlock)
             \/ /\ logFilter.ToBlock # Nil
                /\ ~ev.unresolved
                /\ ev.Number > GetNumericBlockNumber(logFilter.ToBlock)

\* shouldSkipLogFilter checks if the log filter can be skipped while
\* notifying new logs; ev.unresolved says that the block numbers cannot be
\* resolved (GetNumericBlockNumber returns an error)
shouldSkipLogFilter(ev, filter) ==
    LET logFilter == filter.Parameters
    IN  IF logFilter.BlockHash # Nil
        THEN logFilter.BlockHash[1] # ev.Hash
        ELSE \/ /\ logFilter.FromBlock # Nil
                /\ \/ ev.unresolved
                   \/ ev.Number < GetNumericBlockNumber(logFilter.FromBlock)
             \/ /\ logFilter.ToBlock # Nil
                /\ \/ ev.unresolved
                   \/ ev.Number > GetNumericBlockNumber(logFilter.ToBlock)

\* f.EnqueueSubscriptionDataToBeSent for each item of a list, in order
Enqueue(queues, filterID, items) ==
    [queues EXCEPT ![filterID] = @ \o items]

\* the function of notifyNewHeads that returns after the first filter of
\* its chunk
notifyNewHeadsFnFirstOnly(chunk, data, queues) ==
    IF chunk = <<>> THEN [sent |-> queues, panicked |-> FALSE]
    ELSE IF Head(chunk).ID \in faulty
         THEN [sent |-> queues, panicked |-> TRUE]
    ELSE [sent |-> Enqueue(queues, Head(chunk).ID, <<data>>),
          panicked |-> FALSE]

\* the function of notifyNewHeads that enqueues the data on every
\* subscription made, in the storage or not
notifyNewHeadsFnBroadcast(chunk, data, queues) ==
    [sent |-> IF chunk = <<>> THEN queues
              ELSE [id \in DOMAIN queues |-> Append(queues[id], data)],
     panicked |-> FALSE]

RECURSIVE notifyNewHeadsFn(_, _, _)
\* notifyNewHeads, the function given to parallelize: the data is enqueued
\* on each filter of the chunk; the enqueue of a faulty filter panics
notifyNewHeadsFn(chunk, data, queues) ==
    IF chunk = <<>> THEN [sent |-> queues, panicked |-> FALSE]
    ELSE IF Head(chunk).ID \in faulty
         THEN [sent |-> queues, panicked |-> TRUE]
    ELSE notifyNewHeadsFn(Tail(chunk), data,
                          Enqueue(queues, Head(chunk).ID, <<data>>))

RECURSIVE notifyNewLogsFn(_, _)
\* notifyNewLogs, the function given to parallelize: it returns at the
\* first filter to skip; for every other filter the logs that filterLogs
\* keeps are marshalled and enqueued in order
notifyNewLogsFn(chunk, queues) ==
    IF chunk = <<>> THEN [sent |-> queues, panicked |-> FALSE]
    ELSE LET filter == Head(chunk)
             logs == filterLogs(event.Logs, filter)
             data == [i \in 1..Len(logs) |-> Marshal(event.Number, logs[i])]
         IN  IF shouldSkipLogFilter(event, filter)
             THEN [sent |-> queues, panicked |-> FALSE]
             ELSE IF Len(logs) > 0 /\ filter.ID \in faulty
                  THEN [sent |-> queues, panicked |-> TRUE]
             ELSE notifyNewLogsFn(Tail(chunk),
                                  Enqueue(queues, filter.ID, data))

\* the goroutine enters parallelize(maxWorkers, items, fn)
EnterParallelize(items, data) ==
    IF Len(items) = 0
    THEN [pc |-> "done", data |-> data, filters |-> items,
          worker |-> 0, workers |-> <<>>]
    ELSE [pc |-> "spawn", data |-> data, filters |-> items,
          worker |-> 0, workers |-> <<>>]

\* parallelize, the loop over the workers: a goroutine is started for each
\* worker that is not passed over. The loop reads nothing a worker writes,
\* so it is taken as one step.
SpawnWorkers(g) ==
    LET n == Len(g.filters)
        started == {w \in 0..(workersCount(maxWorkers, n) - 1) :
                       startsWorker(maxWorkers, n, w)}
    IN  [g EXCEPT !.workers = [w \in started |-> "running"],
                  !.worker = workersCount(maxWorkers, n),
                  !.pc = "wait"]

\* the goroutine of a worker has ended
Ended(status) == status \in {"done", "recovered"}

\* the most events handled
MaxEvents == 1

\* onNewL2Block: the state has stored the block and raises the event; the
\* two notification goroutines are started; most is the number of events
\* the state raises
onNewL2Block(most) ==
    /\ handler \in {"idle", "returned"}
    /\ Len(blocks) < most
    /\ LET number == Len(blocks) + 1
           needsResolve ==
               \E id \in DOMAIN filters :
                   /\ filters[id].Type = FilterTypeLog
                   /\ filters[id].Parameters.BlockHash = Nil
                   /\ \/ filters[id].Parameters.FromBlock # Nil
                      \/ filters[id].Parameters.ToBlock # Nil
           hasBlockFilter ==
               \E id \in DOMAIN filters : filters[id].Type = FilterTypeBlock
       IN  \E logs \in BlockLogs(number),
              bad \in (IF hasBlockFilter THEN BOOLEAN ELSE {FALSE}),
              unresolved \in (IF needsResolve THEN BOOLEAN ELSE {FALSE}) :
               /\ blocks' = Append(blocks, Block(number, now, logs))
               /\ event' = [Number |-> number, Hash |-> BlockHashOf(number),
                            Logs |-> logs, unresolved |-> unresolved]
               /\ badHeader' = bad
    /\ now' = now + 1
    /\ handler' = "waiting"
    /\ heads' = [NoGoroutine EXCEPT !.pc = "start"]
    /\ newLogs' = [NoGoroutine EXCEPT !.pc = "start"]
    /\ UNCHANGED <<filters, nextID, pc, call, reply, delivered, registeredAt,
                   polledAt, polls, sent, faulty, matchVars, queryVars, parVars>>

\* the state raises the event of one of its first MaxEvents blocks
OnNewL2Block == onNewL2Block(MaxEvents)

\* notifyNewHeads up to the call of parallelize: the block is built and
\* marshalled once; when that fails the goroutine returns
NotifyNewHeads ==
    /\ handler = "waiting"
    /\ heads.pc = "start"
    /\ heads' = IF badHeader
                THEN [heads EXCEPT !.pc = "done"]
                ELSE EnterParallelize(GetAllBlockFiltersWithWSConn,
                                      Marshal(event.Number, NewBlock(event)))
    /\ UNCHANGED <<pollVars, event, handler, newLogs, sent, faulty,
                   badHeader, matchVars, queryVars, parVars>>

\* notifyNewLogs up to the call of parallelize
NotifyNewLogs ==
    /\ handler = "waiting"
    /\ newLogs.pc = "start"
    /\ newLogs' = EnterParallelize(GetAllLogFiltersWithWSConn, <<>>)
    /\ UNCHANGED <<pollVars, event, handler, heads, sent, faulty,
                   badHeader, matchVars, queryVars, parVars>>

\* parallelize of notifyNewHeads starts its workers
HeadsSpawn ==
    /\ handler = "waiting"
    /\ heads.pc = "spawn"
    /\ heads' = SpawnWorkers(heads)
    /\ UNCHANGED <<pollVars, event, handler, newLogs, sent, faulty,
                   badHeader, matchVars, queryVars, parVars>>

\* parallelize of notifyNewLogs starts its workers
LogsSpawn ==
    /\ handler = "waiting"
    /\ newLogs.pc = "spawn"
    /\ newLogs' = SpawnWorkers(newLogs)
    /\ UNCHANGED <<pollVars, event, handler, heads, sent, faulty,
                   badHeader, matchVars, queryVars, parVars>>

\* a worker goroutine of notifyNewHeads that also advances LastPoll of the
\* filters of its chunk
HeadsWorkerTouching(worker) ==
    /\ handler = "waiting"
    /\ worker \in DOMAIN heads.workers
    /\ heads.workers[worker] = "running"
    /\ LET chunk == jobItems(maxWorkers, heads.filters, worker)
           out == notifyNewHeadsFn(chunk, heads.data, sent)
           status == deferred(out.panicked)
           notified == {chunk[i].ID : i \in 1..Len(chunk)}
       IN  /\ sent' = out.sent
           /\ heads' = [heads EXCEPT !.workers[worker] = status]
           /\ handler' = IF status = "crashed" THEN "crashed" ELSE handler
           /\ filters' = [id \in DOMAIN filters |->
                             IF id \in notified
                             THEN [filters[id] EXCEPT !.LastPoll = now]
                             ELSE filters[id]]
           /\ now' = now + 1
    /\ UNCHANGED <<nextID, blocks, pc, call, reply, delivered, registeredAt,
                   polledAt, polls, event, newLogs, faulty, badHeader,
                   matchVars, queryVars, parVars>>

\* a worker goroutine of notifyNewHeads runs fn on its chunk, then its
\* deferred function; a panic that is not recovered ends the process
HeadsWorker(worker) ==
    /\ handler = "waiting"
    /\ worker \in DOMAIN heads.workers
    /\ heads.workers[worker] = "running"
    /\ LET out == notifyNewHeadsFn(
                      jobItems(maxWorkers, heads.filters, worker),
                      heads.data, sent)
           status == deferred(out.panicked)
       IN  /\ sent' = out.sent
           /\ heads' = [heads EXCEPT !.workers[worker] = status]
           /\ handler' = IF status = "crashed" THEN "crashed" ELSE handler
    /\ UNCHANGED <<pollVars, event, newLogs, faulty, badHeader, matchVars, queryVars, parVars>>

\* a worker goroutine of notifyNewLogs runs fn on its chunk, then its
\* deferred function
LogsWorker(worker) ==
    /\ handler = "waiting"
    /\ worker \in DOMAIN newLogs.workers
    /\ newLogs.workers[worker] = "running"
    /\ LET out == notifyNewLogsFn(
                      jobItems(maxWorkers, newLogs.filters, worker), sent)
           status == deferred(out.panicked)
       IN  /\ sent' = out.sent
           /\ newLogs' = [newLogs EXCEPT !.workers[worker] = status]
           /\ handler' = IF status = "crashed" THEN "crashed" ELSE handler
    /\ UNCHANGED <<pollVars, event, heads, faulty, badHeader, matchVars, queryVars, parVars>>

\* parallelize that returns without wg.Wait()
HeadsNoWait ==
    /\ handler = "waiting"
    /\ heads.pc = "wait"
    /\ heads' = [heads EXCEPT !.pc = "done"]
    /\ UNCHANGED <<pollVars, event, handler, newLogs, sent, faulty,
                   badHeader, matchVars, queryVars, parVars>>

\* parallelize, wg.Wait(): every started worker has called wg.Done();
\* parallelize returns and so does notifyNewHeads
HeadsWait ==
    /\ handler = "waiting"
    /\ heads.pc = "wait"
    /\ \A w \in DOMAIN heads.workers : Ended(heads.workers[w])
    /\ heads' = [heads EXCEPT !.pc = "done"]
    /\ UNCHANGED <<pollVars, event, handler, newLogs, sent, faulty,
                   badHeader, matchVars, queryVars, parVars>>

\* parallelize, wg.Wait() of notifyNewLogs
LogsWait ==
    /\ handler = "waiting"
    /\ newLogs.pc = "wait"
    /\ \A w \in DOMAIN newLogs.workers : Ended(newLogs.workers[w])
    /\ newLogs' = [newLogs EXCEPT !.pc = "done"]
    /\ UNCHANGED <<pollVars, event, handler, heads, sent, faulty,
                   badHeader, matchVars, queryVars, parVars>>

\* onNewL2Block, wg.Wait(): both goroutines have called wg.Done()
OnNewL2BlockReturn ==
    /\ handler = "waiting"
    /\ heads.pc = "done"
    /\ newLogs.pc = "done"
    /\ handler' = "returned"
    /\ UNCHANGED <<pollVars, event, heads, newLogs, sent, faulty,
                   badHeader, matchVars, queryVars, parVars>>

\* ------------------------------------------------------------------------
\* SpecFanout: new L2 block events fanned out to push-mode filters
\* ------------------------------------------------------------------------

\* the most filters of a type when each filter has a worker of its own
MaxFew == 1

\* the most filters of a type beyond maxWorkers, where a chunk holds several
MaxExtra == 1

\* the positions of a filter list where a filter may differ from the others
MaxPos == 2

\* the numbers of Block filters and of Log filters subscribed
FanoutCounts ==
    {<<b, l>> : b \in 0..MaxFew, l \in 0..MaxFew}
    \cup {<<maxWorkers + k, 0>> : k \in 1..MaxExtra}
    \cup {<<0, maxWorkers + k>> : k \in 1..MaxExtra}

\* the log filters most subscribers hold: any log, or the logs of 0xAA
UsualLogFilters ==
    { LogFilter(Nil, Nil, Nil, <<>>, <<>>),
      LogFilter(Nil, Nil, Nil, <<170>>, <<>>) }

\* the log filters one subscriber may hold instead: the logs of block 2 by
\* its hash, or the logs from block 2 on
OtherLogFilters ==
    { LogFilter(Some(BlockHashOf(2)), Nil, Nil, <<>>, <<>>),
      LogFilter(Nil, Some(BlockNum(2)), Nil, <<>>, <<>>) }

\* the web socket connection of the subscribers
WsConn == "ws1"

\* the storage after nb "newHeads" and nl "logs" subscriptions: the filter
\* at position oddPos of the Log filters holds the filter other
Subscribed(nb, nl, usual, oddPos, other) ==
    [id \in 1..(nb + nl) |->
        IF id <= nb
        THEN Filter(id, FilterTypeBlock, NoParameters, id, WsConn)
        ELSE Filter(id, FilterTypeLog,
                    IF id - nb = oddPos THEN other ELSE usual, id, WsConn)]

FanoutInit ==
    /\ \E counts \in FanoutCounts, usual \in UsualLogFilters :
         \E oddPos \in 0..Min(MaxPos, counts[2]) :
           \E other \in (IF oddPos = 0 THEN {usual} ELSE OtherLogFilters) :
             LET nb == counts[1]
                 nl == counts[2]
             IN  /\ filters = Subscribed(nb, nl, usual, oddPos, other)
                 /\ nextID = nb + nl + 1
                 /\ now = nb + nl + 1
                 /\ \E fb \in 0..Min(MaxPos, nb), fl \in 0..Min(MaxPos, nl) :
                        faulty = (IF fb = 0 THEN {} ELSE {fb})
                                 \cup (IF fl = 0 THEN {} ELSE {nb + fl})
    /\ blocks = <<>>
    /\ pc = [c \in Clients |-> "idle"]
    /\ call = [c \in Clients |-> NoCall]
    /\ reply = [c \in Clients |-> NoReply]
    /\ delivered = [id \in DOMAIN filters |-> <<>>]
    /\ registeredAt = [id \in DOMAIN filters |-> 0]
    /\ polledAt = [id \in DOMAIN filters |-> -1]
    /\ polls = 0
    /\ event = NoEvent
    /\ handler = "idle"
    /\ heads = NoGoroutine
    /\ newLogs = NoGoroutine
    /\ sent = [id \in DOMAIN filters |-> <<>>]
    /\ badHeader = FALSE

InitFanout == FanoutInit /\ MatchIdle /\ QueryIdle /\ ParIdle

\* the steps of the goroutines of one onNewL2Block call
FanoutStep ==
    \/ NotifyNewHeads
    \/ NotifyNewLogs
    \/ HeadsSpawn
    \/ LogsSpawn
    \/ \E worker \in DOMAIN heads.workers : HeadsWorker(worker)
    \/ \E worker \in DOMAIN newLogs.workers : LogsWorker(worker)
    \/ HeadsWait
    \/ LogsWait
    \/ OnNewL2BlockReturn

NextFanout == OnNewL2Block \/ FanoutStep

SpecFanout == InitFanout /\ [][NextFanout]_vars

\* the Go scheduler runs every goroutine that can run
SpecFanoutFair == SpecFanout /\ WF_vars(FanoutStep)

\* ------------------------------------------------------------------------
\* Properties of the fan-out (SpecFanout, SpecFanoutFair)
\* ------------------------------------------------------------------------

\* the data enqueued on the filter for the event being handled
SentFor(filterID) ==
    SelectSeq(sent[filterID], LAMBDA d : d.number = event.Number)

\* the data notifyNewLogs owes a filter for the event: the logs of the
\* event that match the filter, marshalled, in the order of the event
LogsOwed(filter) ==
    LET logs == filterLogs(event.Logs, filter)
    IN  [i \in 1..Len(logs) |-> Marshal(event.Number, logs[i])]

\* the chunk of a worker of the goroutine
ChunkOf(g, worker) == jobItems(maxWorkers, g.filters, worker)

\* C4: for every event and every Log filter of the fan-out's list that
\* passes the skip test, each log of the event that matches the filter is
\* enqueued on it exactly once, for any number of filters and whatever
\* other filters are skipped (stated for a fan-out without a panic).
C4_EveryMatchingLogEnqueued ==
    (newLogs.pc = "done" /\ faulty = {}) =>
        \A i \in 1..Len(newLogs.filters) :
            ~shouldSkipLogFilter(event, newLogs.filters[i]) =>
                SentFor(newLogs.filters[i].ID) = LogsOwed(newLogs.filters[i])

\* the enqueue of some filter of the chunk panics
HeadsChunkPanics(worker) ==
    \E i \in 1..Len(ChunkOf(heads, worker)) :
        ChunkOf(heads, worker)[i].ID \in faulty

LogsChunkPanics(worker) ==
    notifyNewLogsFn(ChunkOf(newLogs, worker), sent).panicked

\* C5: a panic in one chunk is recovered in that chunk's worker, the
\* function of every other chunk runs to completion for the same event
\* (each Block filter of such a chunk holds the header), no panic ends the
\* process, and parallelize can return once every worker has ended.
C5_FanoutIsolation ==
    /\ handler # "crashed"
    /\ \A w \in DOMAIN heads.workers :
           /\ heads.workers[w] \in {"running", "done", "recovered"}
           /\ heads.workers[w] = "recovered" => HeadsChunkPanics(w)
           /\ (heads.pc = "done" /\ ~HeadsChunkPanics(w)) =>
                  /\ heads.workers[w] = "done"
                  /\ \A i \in 1..Len(ChunkOf(heads, w)) :
                         SentFor(ChunkOf(heads, w)[i].ID) = <<heads.data>>
    /\ \A w \in DOMAIN newLogs.workers :
           /\ newLogs.workers[w] \in {"running", "done", "recovered"}
           /\ newLogs.workers[w] = "recovered" => LogsChunkPanics(w)
           /\ (newLogs.pc = "done" /\ ~LogsChunkPanics(w)) =>
                  newLogs.workers[w] = "done"
    /\ (heads.pc = "wait" /\ \A w \in DOMAIN heads.workers :
                                 heads.workers[w] # "running")
           => ENABLED HeadsWait
    /\ (newLogs.pc = "wait" /\ \A w \in DOMAIN newLogs.workers :
                                   newLogs.workers[w] # "running")
           => ENABLED LogsWait

\* C5 witness: parallelize has returned, one chunk of two filters panicked
\* and was recovered, and the filters of another chunk hold the header.
C5_Witness ==
    /\ heads.pc = "done"
    /\ \E w, v \in DOMAIN heads.workers :
           /\ heads.workers[w] = "recovered"
           /\ Len(ChunkOf(heads, w)) = 2
           /\ heads.workers[v] = "done"
           /\ Len(ChunkOf(heads, v)) = 2
           /\ \A i \in 1..2 :
                  SentFor(ChunkOf(heads, v)[i].ID) = <<heads.data>>

\* C6: under fair scheduling of the goroutines every onNewL2Block call
\* returns, whatever chunk workers panic, and no panic of a chunk reaches
\* the caller.
C6_HandlerReturns ==
    /\ [](handler # "crashed")
    /\ (handler = "waiting") ~> (handler = "returned")

\* C6 witness: onNewL2Block has returned from an event in which a worker of
\* each notification class panicked.
C6_Witness ==
    /\ handler = "returned"
    /\ \E w \in DOMAIN heads.workers : heads.workers[w] = "recovered"
    /\ \E w \in DOMAIN newLogs.workers : newLogs.workers[w] = "recovered"

\* C7: when the header serializes and no worker panics, every Block filter
\* of the fan-out's list receives exactly one enqueue for the event, and it
\* is the same serialized header for all of them.
C7_OneHeaderEach ==
    (/\ heads.pc = "done"
     /\ handler \in {"waiting", "returned"}
     /\ ~badHeader
     /\ \A w \in DOMAIN heads.workers : ~HeadsChunkPanics(w)) =>
        /\ heads.filters = GetAllBlockFiltersWithWSConn
        /\ \A i \in 1..Len(heads.filters) :
               SentFor(heads.filters[i].ID) =
                   <<Marshal(event.Number, NewBlock(event))>>

\* C7 witness: more Block filters than maxWorkers have each received the
\* header of the event.
C7_Witness ==
    /\ heads.pc = "done"
    /\ ~badHeader
    /\ Len(heads.filters) > maxWorkers
    /\ \A i \in 1..Len(heads.filters) :
           SentFor(heads.filters[i].ID) =
               <<Marshal(event.Number, NewBlock(event))>>

\* ------------------------------------------------------------------------
\* SpecMatch: filterLogs on every filter and log of the bounded sets
\* ------------------------------------------------------------------------

\* the address lists a filter may hold
AddressLists == ValueLists(Addrs, MaxAddrs)

\* the topic slots a filter may hold: the empty slot is the wildcard
TopicSlots == ValueLists(TopicValues, MaxSlotLen)

\* the topic lists of a filter; one slot more than a log can have topics
FilterTopics == SeqsUpTo(TopicSlots, MaxFilterTopics)

\* the topic lists of a log
LogTopics == SeqsUpTo(TopicValues, maxTopics)

MatchInit ==
    /\ \E addresses \in AddressLists, topics \in FilterTopics :
           filterArg = Filter(1, FilterTypeLog,
                              LogFilter(Nil, Nil, Nil, addresses, topics),
                              0, NoConn)
    /\ \E a \in Addrs, t \in LogTopics :
           logsToFilter = <<EthLog(1, 0, a, t)>>
    /\ matched = <<>>
    /\ applied = FALSE

ApplyFilterLogs ==
    /\ ~applied
    /\ logsToFilter # <<>>
    /\ matched' = filterLogs(logsToFilter, filterArg)
    /\ applied' = TRUE
    /\ UNCHANGED <<logsToFilter, filterArg, pollVars, fanoutVars, queryVars, parVars>>

InitMatch == PollInit /\ FanoutIdle /\ MatchInit /\ QueryIdle /\ ParIdle

NextMatch == ApplyFilterLogs

SpecMatch == InitMatch /\ [][NextMatch]_vars

\* ------------------------------------------------------------------------
\* Properties of filterLogs (SpecMatch)
\* ------------------------------------------------------------------------

\* the log filterLogs was applied to
TheLog == logsToFilter[1]

\* the reference predicate of the log matcher: the address is accepted and
\* every slot below min(len(Topics), 4) is empty or holds the log's topic
ReferenceMatch(logFilter, l) ==
    /\ \/ Len(logFilter.Addresses) = 0
       \/ l.Address \in Range(logFilter.Addresses)
    /\ \A i \in 1..Min(Len(logFilter.Topics), 4) :
           \/ Len(logFilter.Topics[i]) = 0
           \/ /\ Len(l.Topics) >= i
              /\ l.Topics[i] \in Range(logFilter.Topics[i])

\* C8: filterLogs keeps a log exactly when the reference predicate holds:
\* the address list is empty or holds the log's address, and every topic
\* slot below min(len(Topics), 4) is empty or holds the log's topic there.
C8_FilterLogsIsReference ==
    applied =>
        matched = IF ReferenceMatch(filterArg.Parameters, TheLog)
                  THEN <<NewLog(TheLog)>>
                  ELSE <<>>

\* C8 witness: a log without a topic the filter requires was rejected, and
\* the filter defines more slots than maxTopics.
C8_Witness ==
    /\ applied
    /\ matched = <<>>
    /\ Len(filterArg.Parameters.Topics) > maxTopics
    /\ ~addressSkips(filterArg.Parameters, TheLog)
    /\ \E i \in 1..maxTopics :
           /\ Len(filterArg.Parameters.Topics[i]) > 0
           /\ Len(TheLog.Topics) < i
           /\ \A j \in 1..(i - 1) :
                  \/ Len(filterArg.Parameters.Topics[j]) = 0
                  \/ TheLog.Topics[j] \in Range(filterArg.Parameters.Topics[j])

\* C9: filterLogs never keeps a log whose address is not in a non-empty
\* address list, and always keeps a log when the filter has neither
\* addresses nor topics.
C9_AddressAndEmptyFilter ==
    applied =>
        /\ (/\ Len(filterArg.Parameters.Addresses) > 0
            /\ TheLog.Address \notin Range(filterArg.Parameters.Addresses))
               => matched = <<>>
        /\ (/\ Len(filterArg.Parameters.Addresses) = 0
            /\ Len(filterArg.Parameters.Topics) = 0)
               => matched = <<NewLog(TheLog)>>

\* C9 witness: a log that passes every topic slot was rejected because its
\* address is not in the filter's address list.
C9_Witness ==
    /\ applied
    /\ Len(filterArg.Parameters.Addresses) > 0
    /\ TheLog.Address \notin Range(filterArg.Parameters.Addresses)
    /\ topicsMatch(filterArg.Parameters, TheLog)
    /\ matched = <<>>

\* the filter has no address and the topics [{}, {T}]
WildcardThen(T) ==
    /\ filterArg.Parameters.Addresses = <<>>
    /\ filterArg.Parameters.Topics = << <<>>, <<T>> >>

\* C10: a filter with no address and Topics = [{}, {T}] keeps every log
\* whose topic at position 1 is T, whatever its topic at position 0, and
\* keeps no log whose topic at position 1 differs from T.
C10_TopicWildcard ==
    \A T \in TopicValues :
        (applied /\ WildcardThen(T) /\ Len(TheLog.Topics) >= 2) =>
            matched = IF TheLog.Topics[2] = T
                      THEN <<NewLog(TheLog)>>
                      ELSE <<>>

\* C10 witness: the filter [{}, {T}] kept a log whose topic at position 0
\* is not T and whose topic at position 1 is T.
C10_Witness ==
    \E T \in TopicValues :
        /\ applied
        /\ WildcardThen(T)
        /\ Len(TheLog.Topics) >= 2
        /\ TheLog.Topics[1] # T
        /\ TheLog.Topics[2] = T
        /\ matched = <<NewLog(TheLog)>>

\* the log passes the address check and every slot of the filter at a
\* position where the log has a topic
PassesBelow(logFilter, l) ==
    /\ ~addressSkips(logFilter, l)
    /\ \A i \in 1..Min(Len(l.Topics), Len(logFilter.Topics)) :
           \/ logFilter.Topics[i] = <<>>
           \/ l.Topics[i] \in Range(logFilter.Topics[i])

\* the slots the filter defines at the positions k <= i < 4 beyond the k
\* topics of the log (counted from 1 here)
SlotsBeyond(logFilter, l) ==
    (Len(l.Topics) + 1)..Min(Len(logFilter.Topics), maxTopics)

\* C26: a log with k topics that passes the address check and every filter
\* slot below k is kept when every filter slot at a position i >= k, i < 4,
\* is empty, and is rejected when some filter slot at such a position is
\* not empty; a filter with fewer slots than the log has topics leaves the
\* other topics of the log unconstrained.
C26_SlotsBeyondLogTopics ==
    (applied /\ PassesBelow(filterArg.Parameters, TheLog)) =>
        LET beyond == SlotsBeyond(filterArg.Parameters, TheLog)
        IN  /\ (\A i \in beyond : filterArg.Parameters.Topics[i] = <<>>)
                   => matched = <<NewLog(TheLog)>>
            /\ (\E i \in beyond : filterArg.Parameters.Topics[i] # <<>>)
                   => matched = <<>>
            /\ Len(filterArg.Parameters.Topics) < Len(TheLog.Topics)
                   => matched = <<NewLog(TheLog)>>

\* C26 witness: a log with one topic passes slot 0, the filter holds a
\* wildcard at position 1 and a value at position 2, and the log was
\* rejected.
C26_Witness ==
    /\ applied
    /\ Len(TheLog.Topics) = 1
    /\ PassesBelow(filterArg.Parameters, TheLog)
    /\ Len(filterArg.Parameters.Topics) >= 3
    /\ filterArg.Parameters.Topics[1] # <<>>
    /\ filterArg.Parameters.Topics[2] = <<>>
    /\ filterArg.Parameters.Topics[3] # <<>>
    /\ matched = <<>>

\* ------------------------------------------------------------------------
\* Properties of the poll-mode engine (Spec, SpecQuery)
\* ------------------------------------------------------------------------

\* the log behind its RPC form, as the matcher reads it
AsLog(r) == [Address |-> r.address, Topics |-> r.topics]

\* C13: every log GetFilterChanges returns for a Log filter satisfies the
\* matcher's predicate (address and topic slots) against the filter's
\* stored parameters, also when the state does not apply the topics itself.
C13_ReturnedLogsMatch ==
    \A c \in Clients :
        (/\ pc[c] = "idle"
         /\ reply[c].status = "result"
         /\ reply[c].filterID \in DOMAIN filters
         /\ filters[reply[c].filterID].Type = FilterTypeLog) =>
            \A i \in 1..Len(reply[c].items) :
                ReferenceMatch(filters[reply[c].filterID].Parameters,
                               AsLog(reply[c].items[i]))

\* this step is the return of an UninstallFilter call
UninstallReturns == answer' # answer /\ answer'.op = "UninstallFilter"

\* this step is the start of a GetFilterChanges call
PollStarts == polls' # polls

\* C14: UninstallFilter returns true exactly when a filter with the ID
\* existed and was removed, and false with no error when no such filter
\* exists; once it has returned true for an ID, the storage never holds
\* that ID again, a further UninstallFilter on it returns false, and no
\* GetFilterChanges call started on it gets past "filter not found".
C14_UninstallFilter ==
    [][ /\ DOMAIN removedAt \cap DOMAIN filters = {}
        /\ UninstallReturns =>
               LET id == answer'.filterID
               IN  /\ (answer'.status = "true") <=>
                          (id \in DOMAIN filters /\ id \notin DOMAIN filters')
                   /\ id \notin DOMAIN filters =>
                          /\ answer'.status = "false"
                          /\ answer'.msg = ""
                          /\ filters' = filters
                   /\ id \in DOMAIN removedAt => answer'.status = "false"
                   /\ \A other \in DOMAIN filters \ {id} :
                          /\ other \in DOMAIN filters'
                          /\ filters'[other] = filters[other]
        /\ PollStarts =>
               \A c \in Clients :
                   /\ (pc[c] = "idle" /\ pc'[c] = "retrieve") =>
                          call'[c].filterID \notin DOMAIN removedAt
                   /\ (reply'[c] # reply[c]
                       /\ reply'[c].filterID \in DOMAIN removedAt) =>
                          reply'[c].msg = "filter not found"
      ]_vars

\* C14 witness: a second UninstallFilter on a removed filter returned false
\* and a GetFilterChanges on it reported "filter not found".
C14_Witness ==
    /\ answer.op = "UninstallFilter"
    /\ answer.status = "false"
    /\ answer.filterID \in DOMAIN removedAt
    /\ \E c \in Clients :
           /\ reply[c].msg = "filter not found"
           /\ reply[c].filterID = answer.filterID

\* this step is the return of a GetFilterLogs call
GetFilterLogsReturns == answer' # answer /\ answer'.op = "GetFilterLogs"

\* C16: GetFilterLogs changes no filter (LastPoll included) whatever its
\* outcome, it queries with Since unset, and what a GetFilterChanges call
\* on any filter would retrieve is the same after it as before it (the
\* blocks are the same and so is the retrieval for the filter it leaves).
C16_GetFilterLogsFrame ==
    [][ GetFilterLogsReturns =>
            /\ filters' = filters
            /\ UNCHANGED pollVars
            /\ answer'.query # Nil => answer'.query[1].Since = Nil
            /\ blocks' = blocks
            /\ \A id \in DOMAIN filters :
                   /\ id \in DOMAIN filters'
                   /\ Retrieved(filters'[id], stateAppliesTopics') =
                          Retrieved(filters[id], stateAppliesTopics)
      ]_vars

\* C16 witness: GetFilterLogs returned logs for a filter that GetFilterChanges
\* has polled with a result.
C16_Witness ==
    /\ answer.op = "GetFilterLogs"
    /\ answer.status = "result"
    /\ Len(answer.items) > 0
    /\ \E c \in Clients :
           /\ pc[c] = "idle"
           /\ reply[c].status = "result"
           /\ reply[c].filterID = answer.filterID

\* C17: two consecutive successful GetFilterLogs calls on the same filter,
\* with no block ingested in between and the filter in the storage (or
\* unknown) at both, return identical results, whatever GetFilterChanges
\* calls happened before.
C17_GetFilterLogsIdempotent ==
    [][ (/\ answer.op = "GetFilterLogs"
         /\ answer'.op = "GetFilterLogs"
         /\ answer'.filterID = answer.filterID
         /\ answer'.blocks = answer.blocks
         /\ answer.status # "error"
         /\ answer'.status # "error"
         /\ LET id == answer.filterID
            IN  \/ /\ id \in DOMAIN filters
                   /\ filters[id].Type = FilterTypeLog =>
                          answer.status = "result"
                \/ /\ id \notin DOMAIN filters
                   /\ id \notin DOMAIN removedAt) =>
            /\ answer'.status = answer.status
            /\ answer'.items = answer.items
      ]_vars

\* C17 witness: GetFilterLogs returned logs of a filter right after a
\* successful GetFilterChanges on it, which left nothing new to poll.
C17_Witness ==
    /\ answer.op = "GetFilterLogs"
    /\ answer.status = "result"
    /\ Len(answer.items) > 0
    /\ answer.filterID \in DOMAIN filters
    /\ answer.blocks = Len(blocks)
    /\ polledAt[answer.filterID] = Len(blocks)
    /\ Retrieved(filters[answer.filterID], stateAppliesTopics) = <<>>

\* C20: a GetFilterChanges call on an ID the storage does not hold returns
\* the error "filter not found", never reaches the retrieval (no
\* collaborator is queried) and changes no filter, block or cursor.
C20_UnknownFilter ==
    [][ PollStarts =>
            /\ \A c \in Clients :
                   (pc[c] = "idle" /\ pc'[c] = "retrieve") =>
                       call'[c].filterID \in DOMAIN filters
            /\ (\A c \in Clients : pc'[c] = pc[c]) =>
                   /\ \E c \in Clients :
                          /\ reply'[c].status = "error"
                          /\ reply'[c].msg = "filter not found"
                          /\ reply'[c].items = <<>>
                          /\ reply'[c].filterID \notin DOMAIN filters
                   /\ UNCHANGED <<filters, nextID, now, blocks, call,
                                  delivered, registeredAt, polledAt>>
      ]_vars

\* C20 witness: with a block ingested, a GetFilterChanges call on an ID the
\* storage has never held returned "filter not found".
C20_Witness ==
    \E c \in Clients :
        /\ pc[c] = "idle"
        /\ reply[c].msg = "filter not found"
        /\ reply[c].filterID \notin DOMAIN filters
        /\ reply[c].filterID \notin DOMAIN removedAt
        /\ reply[c].started > 0

\* client c returns in this step from a call whose retrieval yielded no item
ReturnsEmpty(c) == pc[c] = "update" /\ Returns(c) /\ call[c].res = <<>>

\* the error of a LastPoll update the storage failed
UpdateError == "failed to update last time the filter changes were requested"

\* LastPoll of the filter of the call, when the storage still holds it, is
\* advanced to the instant of this step
Advances(c) ==
    call[c].filterID \in DOMAIN filters =>
        /\ call[c].filterID \in DOMAIN filters'
        /\ filters'[call[c].filterID].LastPoll = now
        /\ filters'[call[c].filterID].LastPoll >
               filters[call[c].filterID].LastPoll

\* C21 as stated: a GetFilterChanges call whose retrieval succeeds but
\* yields no items returns the no-changes result (nil, no error) and still
\* advances the filter's LastPoll.
C21_EmptyAlwaysNoChanges ==
    [][ \A c \in Clients :
            ReturnsEmpty(c) =>
                /\ reply'[c].status = "nil"
                /\ reply'[c].msg = ""
                /\ Advances(c)
      ]_vars

\* C21: a GetFilterChanges call whose retrieval succeeds but yields no
\* items returns the no-changes result (nil, no error) and advances the
\* LastPoll of its filter when the storage still holds it, unless the
\* storage fails the LastPoll update: then the call returns the error of
\* the update and no filter changes. An empty list is never returned.
C21_EmptyReturnsNoChanges ==
    [][ \A c \in Clients :
            ReturnsEmpty(c) =>
                /\ reply'[c].items = <<>>
                /\ reply'[c].status \in {"nil", "error"}
                /\ reply'[c].status = "nil" =>
                       /\ reply'[c].msg = ""
                       /\ Advances(c)
                /\ reply'[c].status = "error" =>
                       /\ reply'[c].msg = UpdateError
                       /\ filters' = filters
      ]_vars

\* C21 witness: with a block in the state, a poll that retrieved nothing
\* returned nil and LastPoll of its filter is the instant of that return.
C21_Witness ==
    \E c \in Clients :
        /\ pc[c] = "idle"
        /\ reply[c].status = "nil"
        /\ reply[c].filterID \in DOMAIN filters
        /\ Len(blocks) > 0
        /\ filters[reply[c].filterID].LastPoll = now - 1

\* C24: when two GetFilterChanges calls on the same filter are interleaved,
\* no item is returned by both: the items the successful calls on a filter
\* have returned hold no item twice (SpecRace).
C24_NoItemReturnedTwice ==
    \A filterID \in DOMAIN delivered : NoDuplicates(delivered[filterID])

\* C28: when a filter is uninstalled after GetFilterChanges has read it
\* and before GetFilterChanges updates its LastPoll, and the update answers
\* not found, the call returns what it retrieved without error and the
\* filter stays removed: the storage is as it was before the update.
C28_UninstalledDuringPoll ==
    [][ \A c \in Clients :
            (/\ pc[c] = "update"
             /\ Returns(c)
             /\ call[c].filterID \notin DOMAIN filters
             /\ reply'[c].msg # UpdateError) =>
                /\ Succeeded(reply'[c])
                /\ reply'[c].msg = ""
                /\ reply'[c].items = call[c].res
                /\ (reply'[c].status = "nil") = (call[c].res = <<>>)
                /\ filters' = filters
                /\ call[c].filterID \in DOMAIN removedAt'
      ]_vars

\* C28 witness: a poll returned items for a filter that was uninstalled
\* after the poll had read it, a block before the poll updated LastPoll;
\* the storage does not hold the filter.
C28_Witness ==
    \E c \in Clients :
        /\ pc[c] = "idle"
        /\ reply[c].status = "result"
        /\ reply[c].items # <<>>
        /\ reply[c].filterID \in DOMAIN removedAt
        /\ reply[c].filterID \notin DOMAIN filters
        /\ polledAt[reply[c].filterID] > removedAt[reply[c].filterID]

\* GetFilterLogs was the last call answered, on an ID the storage does not
\* hold or on a filter that is no log filter
LogsOfNoLogFilter ==
    /\ answer.op = "GetFilterLogs"
    /\ \/ answer.filterID \notin DOMAIN filters
       \/ filters[answer.filterID].Type # FilterTypeLog

\* the step is a GetFilterChanges call of client c that returns at once,
\* without going on to the retrieval
ReturnsAtOnce(c) ==
    /\ pc[c] = "idle"
    /\ pc'[c] = "idle"
    /\ polls' # polls

\* C31: GetFilterLogs on an ID that is not in the storage, or on a filter
\* whose type is not Log, returns nil with no error and asks no
\* collaborator for logs, whereas GetFilterChanges reports an unknown ID
\* as the error "filter not found" and goes on to the retrieval only for a
\* filter the storage holds (SpecQuery).
C31_GetFilterLogsNilNoQuery ==
    /\ [](LogsOfNoLogFilter =>
              /\ answer.status = "nil"
              /\ answer.msg = ""
              /\ answer.items = <<>>
              /\ answer.query = Nil)
    /\ [][ \A c \in Clients :
               /\ ReturnsAtOnce(c) =>
                      /\ reply'[c].filterID \notin DOMAIN filters
                      /\ reply'[c].status = "error"
                      /\ reply'[c].msg = "filter not found"
               /\ (pc[c] = "idle" /\ pc'[c] = "retrieve") =>
                      call'[c].filterID \in DOMAIN filters
         ]_vars

\* C31 witness: on one ID the storage does not hold, GetFilterLogs has
\* answered nil with no query and GetFilterChanges has answered the error
\* "filter not found".
C31_Witness ==
    /\ LogsOfNoLogFilter
    /\ answer.filterID \notin DOMAIN filters
    /\ answer.status = "nil"
    /\ answer.query = Nil
    /\ \E c \in Clients :
           /\ pc[c] = "idle"
           /\ reply[c].filterID = answer.filterID
           /\ reply[c].status = "error"
           /\ reply[c].msg = "filter not found"

\* ------------------------------------------------------------------------
\* SpecSubs: subscriptions over web socket connections, their removal when
\* a connection closes, and the fan-out of new L2 block events to them
\* ------------------------------------------------------------------------

\* the most subscriptions made
MaxSubs == 2

\* the web socket connections
Conns == {"ws1", "ws2"}

\* the names a subscription may be asked under
SubscriptionNames ==
    {"newHeads", "logs", "pendingTransactions", "newPendingTransactions",
     "syncing", "other"}

\* the log filter of a "logs" subscription: every log
SubscriptionLogFilters == {LogFilter(Nil, Nil, Nil, <<>>, <<>>)}

\* newBlockFilter / newFilter with a connection: the storage creates the
\* filter, the ID is returned, and the filter has an empty queue of data
\* to be sent
subscribeFilter(type, parameters, wsConn, name) ==
    /\ createFilter(type, parameters, wsConn)
    /\ sent' = sent @@ (nextID :> <<>>)
    /\ answer' = [Answer("Subscribe", nextID, "result", "", <<>>, Some(name))
                      EXCEPT !.items = <<nextID>>]

\* Subscribe creates a new subscription over particular events
Subscribe ==
    /\ nextID <= MaxFilters + MaxSubs
    /\ \E wsConn \in Conns, name \in SubscriptionNames,
          logFilter \in SubscriptionLogFilters :
           IF name = "newHeads"
           THEN subscribeFilter(FilterTypeBlock, NoParameters, wsConn, name)
           ELSE IF name = "logs"
           THEN subscribeFilter(FilterTypeLog, logFilter, wsConn, name)
           ELSE /\ IF name \in {"pendingTransactions",
                                "newPendingTransactions"}
                   THEN newPendingTransactionFilter(wsConn, "Subscribe",
                                                    Some(name))
                   ELSE /\ answer' = Answer("Subscribe", 0, "error",
                                IF name = "syncing" THEN "not supported yet"
                                ELSE "invalid filter name", <<>>, Nil)
                        /\ UNCHANGED <<filters, nextID, now, delivered,
                                       registeredAt, polledAt>>
                /\ UNCHANGED sent
    /\ UNCHANGED <<blocks, pc, call, reply, polls, event, handler, heads,
                   newLogs, faulty, badHeader, matchVars, removedAt, removedFilter,
                   stateAppliesTopics, skipped, parVars>>

\* the filter IDs a connection may name
SubscriptionIDs == 1..(MaxFilters + MaxSubs)

\* Unsubscribe that refuses a filter bound to another connection
UnsubscribeOwnOnly(wsConn, filterID) ==
    /\ IF filterID \in DOMAIN filters /\ filters[filterID].WsConn # wsConn
       THEN /\ answer' = Answer("Unsubscribe", filterID, "false", "", <<>>,
                                Some(wsConn))
            /\ UNCHANGED <<filters, removedAt, removedFilter>>
       ELSE uninstallFilter(filterID, "Unsubscribe", Some(wsConn))
    /\ UNCHANGED <<nextID, now, blocks, pc, call, reply, delivered,
                   registeredAt, polledAt, polls, fanoutVars, matchVars,
                   stateAppliesTopics, skipped, parVars>>

\* Unsubscribe uninstalls the filter based on the provided filterID:
\* return e.UninstallFilter(filterID)
UnsubscribeAs(wsConn, filterID) ==
    /\ uninstallFilter(filterID, "Unsubscribe", Some(wsConn))
    /\ UNCHANGED <<nextID, now, blocks, pc, call, reply, delivered,
                   registeredAt, polledAt, polls, fanoutVars, matchVars,
                   stateAppliesTopics, skipped, parVars>>

\* a connection asks to unsubscribe from a filter ID
Unsubscribe ==
    \E wsConn \in Conns, filterID \in SubscriptionIDs :
        UnsubscribeAs(wsConn, filterID)

\* uninstallFilterByWSConn that leaves the filters in the storage
uninstallFilterByWSConnKeeping ==
    /\ \E wsConn \in Conns :
           answer' = Answer("uninstallFilterByWSConn", 0, "nil", "", <<>>,
                            Some(wsConn))
    /\ UNCHANGED <<pollVars, fanoutVars, matchVars, removedAt, removedFilter,
                   stateAppliesTopics, skipped, parVars>>

\* uninstallFilterByWSConn uninstalls the filters connected to the provided
\* web socket connection (storage.UninstallFilterByWSConn)
uninstallFilterByWSConn ==
    /\ \E wsConn \in Conns :
           /\ Uninstall({id \in DOMAIN filters : filters[id].WsConn = wsConn})
           /\ answer' = Answer("uninstallFilterByWSConn", 0, "nil", "", <<>>,
                               Some(wsConn))
    /\ UNCHANGED <<nextID, now, blocks, pc, call, reply, delivered,
                   registeredAt, polledAt, polls, fanoutVars, matchVars,
                   stateAppliesTopics, skipped, parVars>>

InitSubs == PollInit /\ FanoutIdle /\ MatchIdle /\ QueryIdle /\ ParIdle

NextSubs ==
    \/ NewBlockFilter
    \/ NewFilter
    \/ NewPendingTransactionFilter
    \/ Subscribe
    \/ uninstallFilterByWSConn

SpecSubs == InitSubs /\ [][NextSubs]_vars

\* SpecClose: connections close while new L2 block events are fanned out
\* to the subscriptions made before

\* the storage after NewBlockFilter and MaxSubs subscriptions ("newHeads"
\* or "logs") over the connections
CloseInit ==
    /\ \E wsConn \in [2..(MaxSubs + 1) -> Conns],
          type \in [2..(MaxSubs + 1) -> {FilterTypeBlock, FilterTypeLog}] :
           filters = [id \in 1..(MaxSubs + 1) |->
               IF id = 1
               THEN Filter(1, FilterTypeBlock, NoParameters, 1, NoConn)
               ELSE Filter(id, type[id], NoParameters, id, wsConn[id])]
    /\ nextID = MaxSubs + 2
    /\ now = MaxSubs + 2
    /\ blocks = <<>>
    /\ pc = [c \in Clients |-> "idle"]
    /\ call = [c \in Clients |-> NoCall]
    /\ reply = [c \in Clients |-> NoReply]
    /\ delivered = [id \in 1..(MaxSubs + 1) |-> <<>>]
    /\ registeredAt = [id \in 1..(MaxSubs + 1) |-> 0]
    /\ polledAt = [id \in 1..(MaxSubs + 1) |-> -1]
    /\ polls = 0
    /\ event = NoEvent
    /\ handler = "idle"
    /\ heads = NoGoroutine
    /\ newLogs = NoGoroutine
    /\ sent = [id \in 2..(MaxSubs + 1) |-> <<>>]
    /\ faulty = {}
    /\ badHeader = FALSE

InitClose == CloseInit /\ MatchIdle /\ QueryIdle /\ ParIdle

NextClose ==
    \/ uninstallFilterByWSConn
    \/ OnNewL2Block
    \/ FanoutStep

SpecClose == InitClose /\ [][NextClose]_vars

\* SpecDrop: SpecClose where the first connection also unsubscribes from
\* filter IDs one by one

\* the connection that unsubscribes
Unsubscriber == "ws1"

NextDrop ==
    \/ uninstallFilterByWSConn
    \/ \E filterID \in SubscriptionIDs : UnsubscribeAs(Unsubscriber, filterID)
    \/ OnNewL2Block
    \/ FanoutStep

SpecDrop == InitClose /\ [][NextDrop]_vars

\* SpecUnsub: connections unsubscribe from filter IDs and close, on the
\* storage of SpecClose

NextUnsub ==
    \/ Unsubscribe
    \/ uninstallFilterByWSConn

SpecUnsub == InitClose /\ [][NextUnsub]_vars

\* ------------------------------------------------------------------------
\* Properties of the subscriptions (SpecSubs, SpecClose, SpecUnsub)
\* ------------------------------------------------------------------------

\* this step is the return of a request for a pending-transaction filter
PendingTxRequestReturns ==
    /\ answer' # answer
    /\ \/ answer'.op = "NewPendingTransactionFilter"
       \/ /\ answer'.op = "Subscribe"
          /\ answer'.query \in {Some("pendingTransactions"),
                                Some("newPendingTransactions")}

ConnectionCloses ==
    /\ answer'.op = "uninstallFilterByWSConn"
    /\ answer' # answer \/ removedAt' # removedAt \/ filters' # filters

FanoutActs == <<event, handler, heads, newLogs, sent>>' #
                  <<event, handler, heads, newLogs, sent>>

\* C27: handling a new-block event never creates, removes or modifies a
\* filter: over every step of onNewL2Block and of its goroutines the
\* storage holds the same filters with the same LastPoll and Parameters,
\* and once the event is raised the blocks are the same too, so what a
\* GetFilterChanges call would retrieve for any filter is not changed.
C27_FanoutFrame ==
    [][ FanoutActs =>
            /\ filters' = filters
            /\ nextID' = nextID
            /\ UNCHANGED <<pc, call, reply, delivered, polledAt>>
            /\ handler = "waiting" =>
                   /\ blocks' = blocks
                   /\ \A id \in DOMAIN filters :
                          Retrieved(filters'[id], stateAppliesTopics') =
                              Retrieved(filters[id], stateAppliesTopics)
      ]_vars

\* C27 witness: onNewL2Block has returned, no filter was ever removed, every
\* subscription received data of the event, and the poll-mode filter has
\* the LastPoll of its registration.
C27_Witness ==
    /\ handler = "returned"
    /\ removedAt = <<>>
    /\ \A id \in DOMAIN filters :
           IF filters[id].WsConn = NoConn
           THEN filters[id].LastPoll = registeredAt[id] + 1
           ELSE SentFor(id) # <<>>
    /\ \E id \in DOMAIN filters : filters[id].WsConn # NoConn
    /\ \E id \in DOMAIN filters : filters[id].WsConn = NoConn

\* the removed filters that had a queue of data to be sent
RemovedSubscriptions == DOMAIN removedAt \cap DOMAIN sent

\* the filter is in a list the fan-out in progress read from the storage
InFanoutList(filterID) ==
    \/ \E i \in 1..Len(heads.filters) : heads.filters[i].ID = filterID
    \/ \E i \in 1..Len(newLogs.filters) : newLogs.filters[i].ID = filterID

\* C25 as stated: once uninstallFilterByWSConn or Unsubscribe has removed a
\* filter, no EnqueueSubscriptionDataToBeSent call is made on it any more,
\* not even by a fan-out that had read its filter list before the removal.
C25_NoEnqueueOnceRemoved ==
    [][ \A filterID \in RemovedSubscriptions :
            sent'[filterID] = sent[filterID]
      ]_vars

\* C25: once uninstallFilterByWSConn or Unsubscribe has removed a filter,
\* data is enqueued on it only by a fan-out that was in progress at the
\* removal and had read the filter in its list, and only for the event of
\* that fan-out; a fan-out that reads its lists after the removal enqueues
\* nothing on it.
C25_EnqueueOnlyByFanoutInProgress ==
    [][ \A filterID \in RemovedSubscriptions :
            sent'[filterID] # sent[filterID] =>
                /\ handler = "waiting"
                /\ InFanoutList(filterID)
                /\ removedAt[filterID] = event.Number
                /\ Len(sent'[filterID]) > Len(sent[filterID])
                /\ \A i \in 1..Len(sent'[filterID]) :
                       IF i <= Len(sent[filterID])
                       THEN sent'[filterID][i] = sent[filterID][i]
                       ELSE sent'[filterID][i].number = event.Number
      ]_vars

\* C25 witness: the fan-out has returned and a filter removed while it was
\* in progress holds data enqueued after its removal.
C25_Witness ==
    /\ handler = "returned"
    /\ \E filterID \in RemovedSubscriptions :
           /\ Len(sent[filterID]) > removedFilter[filterID].queued
           /\ removedFilter[filterID].WsConn \in Conns

\* the storage without the filter
Without(filterID) == [id \in DOMAIN filters \ {filterID} |-> filters[id]]

\* Unsubscribe(wsConn, filterID) can return the status, with the filter
\* removed from the storage or the storage as it was
CanUnsubscribe(wsConn, filterID, status, removed) ==
    ENABLED (/\ UnsubscribeAs(wsConn, filterID)
             /\ answer'.status = status
             /\ filters' = IF removed THEN Without(filterID) ELSE filters)

\* this step is the return of an Unsubscribe call
UnsubscribeReturns == answer' # answer /\ answer'.op = "Unsubscribe"

\* C30: Unsubscribe(wsConn, id) has the same results and the same effects
\* on the storage for every wsConn: whatever one connection can get for an
\* ID any other can get too, the filter with the ID can be removed by a
\* connection it is not bound to, and a call changes the storage only by
\* removing the filter with the ID, exactly when it returns true.
C30_UnsubscribeAnyConn ==
    /\ [](\A filterID \in SubscriptionIDs, c1 \in Conns, c2 \in Conns,
             status \in {"true", "false", "error"}, removed \in BOOLEAN :
              CanUnsubscribe(c1, filterID, status, removed) =
                  CanUnsubscribe(c2, filterID, status, removed))
    /\ [](\A filterID \in DOMAIN filters, wsConn \in Conns :
              CanUnsubscribe(wsConn, filterID, "true", TRUE))
    /\ [][ UnsubscribeReturns =>
               /\ answer'.status = "true" =>
                      /\ answer'.filterID \in DOMAIN filters
                      /\ filters' = Without(answer'.filterID)
               /\ answer'.status # "true" => filters' = filters
         ]_vars

\* C30 witness: Unsubscribe returned true to a connection for a filter
\* bound to another connection, and has done so for a poll-mode filter.
C30_Witness ==
    /\ answer.op = "Unsubscribe"
    /\ answer.status = "true"
    /\ removedFilter[answer.filterID].WsConn \in Conns \ {answer.query[1]}
    /\ \E filterID \in DOMAIN removedFilter :
           removedFilter[filterID].WsConn = NoConn

\* ------------------------------------------------------------------------
\* SpecNotify: the function notifyNewLogs gives to parallelize, applied to
\* one push-mode Log filter and one event drawn from bounded sets
\* ------------------------------------------------------------------------

\* the most blocks of the chain
MaxChain == 2

\* the block references a filter may hold as FromBlock or ToBlock
BlockRefs ==
    {Nil} \cup {Some(BlockNum(n)) : n \in 0..(MaxChain + 1)}
    \cup {Some(LatestBlockNumber), Some(PendingBlockNumber),
          Some(EarliestBlockNumber)}

\* the block hashes a filter may hold
BlockHashes == {Nil} \cup {Some(BlockHashOf(n)) : n \in 1..MaxChain}

\* the logs of an event: none, or logs of 0xAA with and without topic 0x01
\* around a log of 0xBB
NotifyLogs(number) ==
    { <<>>,
      <<EthLog(number, 0, 170, <<1>>), EthLog(number, 1, 187, <<>>),
        EthLog(number, 2, 170, <<>>)>>,
      <<EthLog(number, 0, 187, <<1>>), EthLog(number, 1, 170, <<1>>),
        EthLog(number, 2, 170, <<1>>)>> }

NotifyInit ==
    /\ \E last \in 1..MaxChain :
           /\ blocks = [n \in 1..last |-> Block(n, n, <<>>)]
           /\ \E number \in 1..last, unresolved \in BOOLEAN :
                  \E logs \in NotifyLogs(number) :
                      /\ event = [Number |-> number,
                                  Hash |-> BlockHashOf(number),
                                  Logs |-> logs, unresolved |-> unresolved]
                      /\ logsToFilter = logs
           /\ now = last + 2
    /\ \E blockHash \in BlockHashes, fromBlock \in BlockRefs,
          toBlock \in BlockRefs, addresses \in {<<>>, <<170>>},
          topics \in {<<>>, << <<1>> >>} :
           filterArg = Filter(1, FilterTypeLog,
                              LogFilter(blockHash, fromBlock, toBlock,
                                        addresses, topics), 0, WsConn)
    /\ filters = (1 :> filterArg)
    /\ nextID = 2
    /\ pc = [c \in Clients |-> "idle"]
    /\ call = [c \in Clients |-> NoCall]
    /\ reply = [c \in Clients |-> NoReply]
    /\ delivered = (1 :> <<>>)
    /\ registeredAt = (1 :> 0)
    /\ polledAt = (1 :> -1)
    /\ polls = 0
    /\ handler = "waiting"
    /\ heads = NoGoroutine
    /\ newLogs = NoGoroutine
    /\ sent = (1 :> <<>>)
    /\ faulty = {}
    /\ badHeader = FALSE
    /\ matched = <<>>
    /\ applied = FALSE

\* the function of notifyNewLogs on the chunk that holds the filter
ApplyNotifyNewLogsFn ==
    /\ ~applied
    /\ skipped' = shouldSkipLogFilter(event, filterArg)
    /\ matched' = filterLogs(event.Logs, filterArg)
    /\ sent' = notifyNewLogsFn(<<filterArg>>, sent).sent
    /\ applied' = TRUE
    /\ UNCHANGED <<pollVars, event, handler, heads, newLogs, faulty,
                   badHeader, logsToFilter, filterArg, answer, removedAt, removedFilter,
                   stateAppliesTopics, parVars>>

InitNotify == NotifyInit /\ QueryIdle /\ ParIdle

NextNotify == ApplyNotifyNewLogsFn

SpecNotify == InitNotify /\ [][NextNotify]_vars

\* ------------------------------------------------------------------------
\* Properties of the function of notifyNewLogs (SpecNotify)
\* ------------------------------------------------------------------------

\* the parameters of the filter the function was applied to
TheFilter == filterArg.Parameters

\* the data enqueued on the filter
TheQueue == sent[filterArg.ID]

\* C11: a push-mode Log filter whose BlockHash is set is notified for an
\* event only if the hash of the event's block equals BlockHash: when the
\* hashes differ the filter is skipped and nothing is enqueued, even if
\* logs of the event match; when they are equal the filter is not skipped,
\* whatever its FromBlock and ToBlock are, and receives its matching logs.
C11_BlockHashDecides ==
    (applied /\ TheFilter.BlockHash # Nil) =>
        IF TheFilter.BlockHash[1] = event.Hash
        THEN /\ ~skipped
             /\ TheQueue = LogsOwed(filterArg)
        ELSE /\ skipped
             /\ TheQueue = <<>>

\* C11 witness: the filter holds the hash of another block and a range that
\* contains the event's block, logs of the event match it, and nothing was
\* enqueued.
C11_Witness ==
    /\ applied
    /\ TheFilter.BlockHash # Nil
    /\ TheFilter.BlockHash[1] # event.Hash
    /\ TheFilter.FromBlock = Some(BlockNum(event.Number))
    /\ LogsOwed(filterArg) # <<>>
    /\ skipped
    /\ TheQueue = <<>>

\* C12: for a filter without BlockHash whose bounds resolve,
\* shouldSkipLogFilter is true exactly when FromBlock is set and resolves
\* above the event's block number or ToBlock is set and resolves below it;
\* an unset bound never skips and a block equal to a bound is not skipped.
C12_RangeDecides ==
    (applied /\ TheFilter.BlockHash = Nil /\ ~event.unresolved) =>
        /\ skipped <=>
               \/ /\ TheFilter.FromBlock # Nil
                  /\ GetNumericBlockNumber(TheFilter.FromBlock) > event.Number
               \/ /\ TheFilter.ToBlock # Nil
                  /\ GetNumericBlockNumber(TheFilter.ToBlock) < event.Number
        /\ (TheFilter.FromBlock = Nil /\ TheFilter.ToBlock = Nil) => ~skipped
        /\ (/\ TheFilter.FromBlock \in {Nil, Some(BlockNum(event.Number))}
            /\ TheFilter.ToBlock \in {Nil, Some(BlockNum(event.Number))})
               => ~skipped

\* C12 witness: the event's block is both bounds of the filter, the filter
\* was not skipped and received logs.
C12_Witness ==
    /\ applied
    /\ TheFilter.BlockHash = Nil
    /\ ~event.unresolved
    /\ TheFilter.FromBlock = Some(BlockNum(event.Number))
    /\ TheFilter.ToBlock = Some(BlockNum(event.Number))
    /\ ~skipped
    /\ TheQueue # <<>>

\* C19: filterLogs returns the matching logs as a subsequence of the
\* event's logs in their order and without duplicates, and the function of
\* notifyNewLogs enqueues them on the filter in that order.
C19_LogOrderKept ==
    applied =>
        /\ \A i \in 1..Len(matched) :
               /\ matched[i].logIndex + 1 \in 1..Len(event.Logs)
               /\ matched[i] = NewLog(event.Logs[matched[i].logIndex + 1])
        /\ \A i, j \in 1..Len(matched) :
               i < j => matched[i].logIndex < matched[j].logIndex
        /\ ~skipped =>
               TheQueue = [i \in 1..Len(matched) |->
                              Marshal(event.Number, matched[i])]

\* C19 witness: the first and the third log of the event match, the second
\* does not, and the two were enqueued in the order of the event.
C19_Witness ==
    /\ applied
    /\ ~skipped
    /\ Len(event.Logs) = 3
    /\ Len(TheQueue) = 2
    /\ TheQueue[1].json.logIndex = 0
    /\ TheQueue[2].json.logIndex = 2

\* ------------------------------------------------------------------------
\* SpecOrder: the state raises the events of its blocks one after the
\* other, each after the handler has returned from the one before, on the
\* storage of SpecClose
\* ------------------------------------------------------------------------

\* the state raises the event of one of its first MaxChain blocks
OnNewL2BlockInOrder == onNewL2Block(MaxChain)

NextOrder == OnNewL2BlockInOrder \/ FanoutStep

SpecOrder == InitClose /\ [][NextOrder]_vars

\* every goroutine the handler or parallelize started has ended
AllFinished ==
    /\ heads.pc = "done"
    /\ newLogs.pc = "done"
    /\ \A w \in DOMAIN heads.workers : Ended(heads.workers[w])
    /\ \A w \in DOMAIN newLogs.workers : Ended(newLogs.workers[w])

\* C29: onNewL2Block returns only after notifyNewHeads, notifyNewLogs and
\* all their chunk workers have finished; with the handler invoked for one
\* block after the other, every enqueue made for block n on a filter comes
\* before every enqueue made for block n + 1 on that filter.
C29_EventsInOrder ==
    /\ [](handler = "returned" => AllFinished)
    /\ [](\A id \in DOMAIN sent :
              \A i, j \in 1..Len(sent[id]) :
                  i < j => sent[id][i].number <= sent[id][j].number)
    /\ [][ \A id \in DOMAIN sent :
               sent'[id] # sent[id] =>
                   /\ handler = "waiting"
                   /\ \A i \in 1..Len(sent[id]) :
                          sent[id][i].number <= event.Number
         ]_vars

\* C29 witness: the handler has returned from the event of block 2 and a
\* filter holds data of block 1 followed by data of block 2.
C29_Witness ==
    /\ handler = "returned"
    /\ event.Number = 2
    /\ \E id \in DOMAIN sent :
           \E i \in 1..(Len(sent[id]) - 1) :
               /\ sent[id][i].number = 1
               /\ sent[id][i + 1].number = 2

\* ------------------------------------------------------------------------
\* SpecSkip: new L2 block events fanned out to "logs" subscriptions that
\* hold block ranges, where the resolution of a block number may fail
\* ------------------------------------------------------------------------

\* the log filters of the subscriptions: every log, the logs from block 1
\* on, the logs up to block MaxChain, the logs of the latest block, and the
\* logs of block 1 by its hash with a range beside it
SkipLogFilters ==
    { LogFilter(Nil, Nil, Nil, <<>>, <<>>),
      LogFilter(Nil, Some(BlockNum(1)), Nil, <<>>, <<>>),
      LogFilter(Nil, Nil, Some(BlockNum(MaxChain)), <<>>, <<>>),
      LogFilter(Nil, Some(LatestBlockNumber), Some(LatestBlockNumber),
                <<>>, <<>>),
      LogFilter(Some(BlockHashOf(1)), Some(BlockNum(1)), Nil, <<>>, <<>>) }

\* the storage after one "newHeads" and MaxSubs "logs" subscriptions of a
\* connection
SkipInit ==
    /\ \E parameters \in [2..(MaxSubs + 1) -> SkipLogFilters] :
           filters = [id \in 1..(MaxSubs + 1) |->
               IF id = 1
               THEN Filter(1, FilterTypeBlock, NoParameters, 1, WsConn)
               ELSE Filter(id, FilterTypeLog, parameters[id], id, WsConn)]
    /\ nextID = MaxSubs + 2
    /\ now = MaxSubs + 2
    /\ blocks = <<>>
    /\ pc = [c \in Clients |-> "idle"]
    /\ call = [c \in Clients |-> NoCall]
    /\ reply = [c \in Clients |-> NoReply]
    /\ delivered = [id \in 1..(MaxSubs + 1) |-> <<>>]
    /\ registeredAt = [id \in 1..(MaxSubs + 1) |-> 0]
    /\ polledAt = [id \in 1..(MaxSubs + 1) |-> -1]
    /\ polls = 0
    /\ event = NoEvent
    /\ handler = "idle"
    /\ heads = NoGoroutine
    /\ newLogs = NoGoroutine
    /\ sent = [id \in 1..(MaxSubs + 1) |-> <<>>]
    /\ faulty = {}
    /\ badHeader = FALSE

InitSkip == SkipInit /\ MatchIdle /\ QueryIdle /\ ParIdle

NextSkip == OnNewL2BlockInOrder \/ FanoutStep

SpecSkip == InitSkip /\ [][NextSkip]_vars

\* ------------------------------------------------------------------------
\* Properties of the fan-out when a block number is not resolved (SpecSkip)
\* ------------------------------------------------------------------------

\* the filter is a Log filter without BlockHash that has FromBlock or
\* ToBlock set
HasRange(filter) ==
    /\ filter.Type = FilterTypeLog
    /\ filter.Parameters.BlockHash = Nil
    /\ \/ filter.Parameters.FromBlock # Nil
       \/ filter.Parameters.ToBlock # Nil

\* the filter is a Log filter with no block criteria
HasNoBlockCriteria(filter) ==
    /\ filter.Type = FilterTypeLog
    /\ filter.Parameters.BlockHash = Nil
    /\ filter.Parameters.FromBlock = Nil
    /\ filter.Parameters.ToBlock = Nil

\* for the event being handled the resolution of a block number of the
\* filter fails
ResolutionFails(filter) == event.unresolved /\ HasRange(filter)

\* C32: during the log fan-out, a filter without BlockHash that has a
\* FromBlock or ToBlock whose resolution fails is skipped for the event:
\* no log of the event is enqueued on it; the failure does not reach the
\* caller of onNewL2Block: no worker ends in a panic, and when the handler
\* has returned the filters without block criteria hold their logs of the
\* event.
C32_UnresolvedRangeSkipped ==
    /\ [](\A id \in DOMAIN filters :
              ResolutionFails(filters[id]) => SentFor(id) = <<>>)
    /\ [](/\ handler # "crashed"
          /\ \A w \in DOMAIN newLogs.workers :
                 newLogs.workers[w] \in {"running", "done"})
    /\ [](handler = "returned" =>
              /\ AllFinished
              /\ \A id \in DOMAIN filters :
                     HasNoBlockCriteria(filters[id]) =>
                         SentFor(id) = LogsOwed(filters[id]))
    /\ [][ \A w \in DOMAIN newLogs.workers :
               (/\ newLogs.workers[w] = "running"
                /\ newLogs'.workers[w] # "running"
                /\ ResolutionFails(ChunkOf(newLogs, w)[1])) =>
                   /\ sent' = sent
                   /\ newLogs'.workers[w] = "done"
                   /\ handler' = handler
         ]_vars

\* C32 witness: the handler has returned from an event whose block numbers
\* could not be resolved; a filter whose range holds the block of the
\* event, and which logs of the event match, received nothing of the
\* event, and a filter without block criteria received its logs.
C32_Witness ==
    /\ handler = "returned"
    /\ event.unresolved
    /\ \E id \in DOMAIN filters :
           /\ HasRange(filters[id])
           /\ filters[id].Parameters.FromBlock \in
                  {Nil, Some(BlockNum(1)), Some(LatestBlockNumber)}
           /\ LogsOwed(filters[id]) # <<>>
           /\ SentFor(id) = <<>>
    /\ \E id \in DOMAIN filters :
           /\ HasNoBlockCriteria(filters[id])
           /\ SentFor(id) # <<>>

\* ------------------------------------------------------------------------
\* SpecPar: one call parallelize(maxWorkers, items, fn) with the list and
\* the number of workers drawn from bounded sets; fn keeps the chunk it is
\* given
\* ------------------------------------------------------------------------

\* the longest item list, apart from the lists around maxWorkers
MaxItems == 6

\* the largest number of workers, apart from maxWorkers of the fan-out
MaxPar == 4

\* the lengths of the item list
ParSizes == 0..MaxItems \cup {maxWorkers, maxWorkers + 1}

\* the values of the parameter maxWorkers
ParMaxWorkers == 1..MaxPar \cup {maxWorkers}

\* the call is made: the items are numbered by their position
ParInit ==
    \E n \in ParSizes, maxW \in ParMaxWorkers :
        par = [pc |-> "start", maxWorkers |-> maxW,
               items |-> [i \in 1..n |-> i], worker |-> 0,
               workers |-> <<>>, jobs |-> <<>>]

\* parallelize, if len(items) == 0 { return }
ParEnter ==
    /\ par.pc = "start"
    /\ par' = [par EXCEPT !.pc = IF Len(par.items) = 0 THEN "done"
                                 ELSE "loop"]
    /\ UNCHANGED <<pollVars, fanoutVars, matchVars, queryVars>>

\* parallelize, one turn of the loop over the workers: the worker is passed
\* over, or a goroutine is started with its chunk of the items
ParLoop ==
    /\ par.pc = "loop"
    /\ LET n == Len(par.items)
           worker == par.worker
           last == ~(worker + 1 < workersCount(par.maxWorkers, n))
       IN  par' = IF ~startsWorker(par.maxWorkers, n, worker)
                  THEN [par EXCEPT !.worker = worker + 1,
                                   !.pc = IF last THEN "wait" ELSE "loop"]
                  ELSE [par EXCEPT
                           !.worker = worker + 1,
                           !.pc = IF last THEN "wait" ELSE "loop",
                           !.workers = @ @@ (worker :> "running"),
                           !.jobs = @ @@ (worker :>
                               jobItems(par.maxWorkers, par.items, worker))]
    /\ UNCHANGED <<pollVars, fanoutVars, matchVars, queryVars>>

\* a worker goroutine runs fn on its chunk, then its deferred function; fn
\* may panic on the chunk of the first worker
ParWorker(worker) ==
    /\ worker \in DOMAIN par.workers
    /\ par.workers[worker] = "running"
    /\ \E panicked \in (IF worker = 0 THEN BOOLEAN ELSE {FALSE}) :
           par' = [par EXCEPT !.workers[worker] = deferred(panicked)]
    /\ UNCHANGED <<pollVars, fanoutVars, matchVars, queryVars>>

\* parallelize, wg.Wait(): every started worker has called wg.Done()
ParWait ==
    /\ par.pc = "wait"
    /\ \A w \in DOMAIN par.workers : Ended(par.workers[w])
    /\ par' = [par EXCEPT !.pc = "done"]
    /\ UNCHANGED <<pollVars, fanoutVars, matchVars, queryVars>>

InitPar == PollInit /\ FanoutIdle /\ MatchIdle /\ QueryIdle /\ ParInit

NextPar ==
    \/ ParEnter
    \/ ParLoop
    \/ \E worker \in DOMAIN par.workers : ParWorker(worker)
    \/ ParWait

SpecPar == InitPar /\ [][NextPar]_vars

\* ------------------------------------------------------------------------
\* Properties of parallelize (SpecPar)
\* ------------------------------------------------------------------------

\* the quotient of a by b, rounded up
CeilDiv(a, b) == (a + b - 1) \div b

\* the workers of the call that are started and have not finished
Running == {w \in DOMAIN par.workers : par.workers[w] = "running"}

\* the loop over the workers has ended
Spawned == par.pc \in {"wait", "done"}

\* C22: for every non-empty item list of length N and every maxWorkers >= 1
\* the chunks parallelize passes to fn are contiguous ranges of the items
\* of size at most ceil(N / min(maxWorkers, N)), pairwise disjoint, and once
\* the loop has ended every item is in exactly one chunk.
C22_ChunksPartition ==
    LET n == Len(par.items)
    IN  n > 0 =>
            /\ \A w \in DOMAIN par.jobs :
                   /\ Len(par.jobs[w]) <= CeilDiv(n, Min(par.maxWorkers, n))
                   /\ \A i \in 1..Len(par.jobs[w]) :
                          /\ par.jobs[w][i] \in 1..n
                          /\ par.jobs[w][i] = par.jobs[w][1] + i - 1
            /\ \A w, v \in DOMAIN par.jobs :
                   w # v => Range(par.jobs[w]) \cap Range(par.jobs[v]) = {}
            /\ Spawned =>
                   \A item \in 1..n :
                       Cardinality({w \in DOMAIN par.jobs :
                                       item \in Range(par.jobs[w])}) = 1

\* C22 witness: the call has returned for a list longer than maxWorkers
\* that does not divide evenly: the last chunk is shorter than the others
\* and a worker was passed over.
C22_Witness ==
    /\ par.pc = "done"
    /\ Len(par.items) > par.maxWorkers
    /\ Cardinality(DOMAIN par.jobs) < par.maxWorkers
    /\ \E w, v \in DOMAIN par.jobs :
           /\ Len(par.jobs[w]) > 1
           /\ Len(par.jobs[v]) = 1

\* C23: at every moment of a parallelize call the number of worker
\* goroutines started and not yet finished is at most min(maxWorkers, N),
\* so at most 16 for the maxWorkers of the fan-out.
C23_WorkersBounded ==
    /\ Cardinality(Running) <= Min(par.maxWorkers, Len(par.items))
    /\ par.maxWorkers = maxWorkers => Cardinality(Running) <= 16

\* C23 witness: with maxWorkers of the fan-out and as many items, 16
\* workers are running at once.
C23_Witness ==
    /\ par.maxWorkers = maxWorkers
    /\ Cardinality(Running) = 16

====
